---- MODULE Spec2Model ----
(***************************************************************************)
(* NMEA sentence framework of the TypeErasureChapter: the insertion stream *)
(* (NMEAInsertionStream), the checksum (calculateNMEAChecksum) and the     *)
(* extraction stream (NMEAExtractionStream).                               *)
(*                                                                         *)
(* Bytes are the integers 0..255, text is a sequence of bytes.  A buffer   *)
(* is a sequence; the byte at C offset o is the element o + 1.             *)
(***************************************************************************)
EXTENDS Integers, Sequences, FiniteSets, TLC

(***************************************************************************)
(* Byte values used by the code.                                           *)
(***************************************************************************)
ByteDollar == 36
ByteStar == 42
ByteComma == 44
ByteZero  == 0
ByteCR == 13
ByteLF == 10
ByteMinus == 45
ByteDot == 46
ByteDigit0 == 48
ByteUpperA == 65
ByteLowerX == 120

(***************************************************************************)
(* Bounds of the model.                                                    *)
(***************************************************************************)
\* appends and finalizes per writer
MaxOps == 3
\* stand-in for 2^64, the modulus of std::size_t arithmetic
SizeModulus == 1000000
\* longest byte string given to calculateNMEAChecksum on its own
MaxData == 4
\* extractions and resets per reader
MaxReads == 5
\* container operations in a run
MaxCalls == 4

\* the one element of a set of one
The(S) == CHOOSE x \in S : TRUE

Min(a, b) == IF a < b THEN a ELSE b
Max(a, b) == IF a < b THEN b ELSE a

(***************************************************************************)
(* Inputs.                                                                 *)
(***************************************************************************)
\* "GP" and the one-character talker "G"
Talkers == { <<71, 80>>, <<71>> }
\* "GGA"
Messages == { <<71, 71, 65>> }
\* buffer capacities: too small for the preamble, tight, and ample
Capacities == { 6, 9, 40 }
IntValues == { 42 }
\* doubles, in millionths: 123.456
DoubleValues == { 123456000 }
\* "STRING", "A*"
TextValues == { <<83, 84, 82, 73, 78, 71>>, <<65, 42>> }
\* register value 0xFFFFFFFF (as the int it converts to)
RegisterValues == { -1 }
FloatFormats == { "fixed", "scientific" }
\* bytes of the strings given to calculateNMEAChecksum on its own: $ * A B
DataBytes == { 36, 42, 65, 66 }
\* what a read outside the buffer can find
GhostBytes == { ByteZero, ByteComma }

(***************************************************************************)
(* Integer helpers.                                                        *)
(***************************************************************************)
RECURSIVE BitXor(_, _)
\* operator ^= on std::uint8_t
BitXor(a, b) ==
    IF a = 0 THEN b
    ELSE IF b = 0 THEN a
    ELSE (((a % 2) + (b % 2)) % 2) + 2 * BitXor(a \div 2, b \div 2)

\* std::size_t subtraction: wraps around below zero
SizeSub(a, b) == IF a >= b THEN a - b ELSE a - b + SizeModulus

RECURSIVE DecDigits(_)
\* the decimal digits of n >= 0
DecDigits(n) ==
    IF n < 10 THEN << ByteDigit0 + n >>
    ELSE Append(DecDigits(n \div 10), ByteDigit0 + (n % 10))

\* one uppercase hex digit
HexDigit(d) == IF d < 10 THEN ByteDigit0 + d ELSE ByteUpperA + (d - 10)

RECURSIVE HexDigits(_)
\* the uppercase hex digits of n >= 0
HexDigits(n) ==
    IF n < 16 THEN << HexDigit(n) >>
    ELSE Append(HexDigits(n \div 16), HexDigit(n % 16))

RECURSIVE ZeroPad(_, _)
\* pad s on the left with '0' to width w
ZeroPad(s, w) == IF Len(s) >= w THEN s ELSE ZeroPad(<< ByteDigit0 >> \o s, w)

RECURSIVE NegDecDigits(_)
\* the decimal digits of -n, for n < 0 (INT_MIN has no negation in an int)
NegDecDigits(n) ==
    LET d == (10 - (n % 10)) % 10
    IN  IF n > -10 THEN << ByteDigit0 - n >>
        ELSE Append(NegDecDigits((n + d) \div 10), ByteDigit0 + d)

\* printf "%d"
FormatD(i) == IF i < 0 THEN << ByteMinus >> \o NegDecDigits(i) ELSE DecDigits(i)

\* printf "%02X" of an unsigned value
Format02X(u) == ZeroPad(HexDigits(u), 2)

\* 2^28, the weight of the top hex digit of a 32-bit value
TopDigit == 268435456

\* printf "0x%04X" of an int: the int is read as unsigned and printed with
\* at least 4 digits; a negative int i is 2^32 + i, whose top digit is 8 and
\* above, followed by the seven digits of the low 28 bits
Format0x04X(i) ==
    << ByteDigit0, ByteLowerX >> \o
    (IF i >= 0 THEN ZeroPad(HexDigits(i), 4)
     ELSE LET low31 == (i + 2147483647) + 1
          IN  << HexDigit(8 + (low31 \div TopDigit)) >> \o
              ZeroPad(HexDigits(low31 % TopDigit), 7))

\* printf "%f" of the double whose value is u millionths
FormatF(u) ==
    LET a == IF u < 0 THEN 0 - u ELSE u
    IN  (IF u < 0 THEN << ByteMinus >> ELSE << >>) \o
        DecDigits(a \div 1000000) \o << ByteDot >> \o
        ZeroPad(DecDigits(a % 1000000), 6)


(***************************************************************************)
(* State.                                                                  *)
(***************************************************************************)
VARIABLES
    \* NMEAInsertionStream: capacity of the buffer, the bytes of the buffer,
    \* the recorded length, the offset of mCurrentPtr from mBeginPtr, the base
    \* and the float format, the talker and message given to the constructor
    mCapacity, mem, mLen, mCurrentPtr, mBase, mFloatFormat, mTalker, mMsg,
    \* "new" before construction, "open" after it, "fault" once a store
    \* outside the buffer has stopped the program
    phase,
    \* history: highest offset stored to so far (-1: none), the fields
    \* appended, the number of finalizes called and of those that formatted
    \* "*HH\r\n", whether an append found the capacity insufficient
    hiStore, vals, nFinal, nDone, insufficient

wvars == << mCapacity, mem, mLen, mCurrentPtr, mBase, mFloatFormat, mTalker,
            mMsg, phase, hiStore, vals, nFinal, nDone, insufficient >>

VARIABLES
    \* NMEAExtractionStream: "none" before construction, "open" after it;
    \* the bytes of mNMEAMessage, the fields, the field index, the error
    \* flag, the checksum flag and value, the talker and the message
    xPhase, mNMEAMessage, mFields, mFieldIdx, mErrorFlag, mChecksumValidFlag,
    mChecksum, xTalker, xMessage,
    \* history: the values extracted so far (each with the number of the
    \* pass it belongs to), the number of calls of reset(), whether an
    \* extraction failed to parse its field or was attempted past the last
    \* field, whether mFields was indexed at a position >= its size
    outs, resets, anyFailed, oob

xvars == << xPhase, mNMEAMessage, mFields, mFieldIdx, mErrorFlag,
            mChecksumValidFlag, mChecksum, xTalker, xMessage, outs, resets,
            anyFailed, oob >>

VARIABLES
    \* a call of calculateNMEAChecksum on its own: the bytes, the length
    \* argument and the value returned (-1 before the call)
    ckData, ckLength, ckResult,
    \* a call of validateNMEAMessage on its own: the characters of the C
    \* string, whether the call was made and the value returned
    vlMsg, vlDone, vlResult

cvars == << ckData, ckLength, ckResult, vlMsg, vlDone, vlResult >>

VARIABLES
    \* AnyNMEAMessage: the containers (born: constructed; self_: the heap
    \* block of the payload, 0 for nullptr; talker_, messageName_, checksum_,
    \* size_), the heap blocks allocated so far (live until deleted; the
    \* payload's type and value)
    boxes, heap,
    \* history: the exception the last container operation threw ("none":
    \* it returned), the operation itself, the number of operations so far
    thrown, lastOp, aCalls

avars == << boxes, heap, thrown, lastOp, aCalls >>

vars == << wvars, xvars, cvars, avars >>

(***************************************************************************)
(* Memory.                                                                 *)
(***************************************************************************)
\* the bytes s stored at offsets at, at+1, ...; m holds the buffer only, a
\* store outside it lands in memory that is not the writer's
Store(m, at, s) ==
    [ j \in 1..Len(m) |->
        IF j - 1 >= at /\ j - 1 < at + Len(s) THEN s[j - at] ELSE m[j] ]

\* the byte at offset o; outside the buffer it is the byte ghost
ReadByte(m, o, ghost) == IF o >= 0 /\ o < Len(m) THEN m[o + 1] ELSE ghost

\* the bytes at offsets [0, n)
Bytes(m, n, ghost) == [ j \in 1..n |-> ReadByte(m, j - 1, ghost) ]

\* snprintf(at, n, ...) of the text s: at most n - 1 characters and a NUL,
\* nothing when n = 0; returns the length of s.  hi is the highest offset
\* stored to
Snprintf(m, at, n, s) ==
    LET k == IF n = 0 THEN 0 ELSE Min(Len(s), n - 1)
    IN  [ mem |-> IF n = 0 THEN m ELSE Store(m, at, SubSeq(s, 1, k) \o << ByteZero >>),
          hi  |-> IF n = 0 THEN -1 ELSE at + k,
          ret |-> Len(s) ]

\* sprintf(at, ...) of the text s: all of s and a NUL, whatever the room
Sprintf(m, at, s) ==
    [ mem |-> Store(m, at, s \o << ByteZero >>),
      hi  |-> at + Len(s),
      ret |-> Len(s) ]

(***************************************************************************)
(* calculateNMEAChecksum.                                                  *)
(***************************************************************************)
RECURSIVE ChecksumLoop(_, _, _, _)
\* the for loop, from index i with the checksum so far
ChecksumLoop(data, i, length, checksum) ==
    IF i < length
    THEN IF data[i + 1] = ByteStar
         THEN checksum
         ELSE ChecksumLoop(data, i + 1, length, BitXor(checksum, data[i + 1]))
    ELSE checksum

\* a checksum that takes the byte at offset 0 in
calculateNMEAChecksum_FromZero(data, length) == ChecksumLoop(data, 0, length, 0)

calculateNMEAChecksum(data, length) == ChecksumLoop(data, 1, length, 0)

(***************************************************************************)
(* NMEAInsertionStream: the operations on a writer w, a record of the      *)
(* members.  The result carries hi, the highest offset the operation       *)
(* stored to (-1: none), and short, whether it found too little room.      *)
(***************************************************************************)
Writer == [ mCapacity |-> mCapacity, mem |-> mem, mLen |-> mLen,
            mCurrentPtr |-> mCurrentPtr, mBase |-> mBase,
            mFloatFormat |-> mFloatFormat ]

Result(w, hi, short) ==
    [ mCapacity |-> w.mCapacity, mem |-> w.mem, mLen |-> w.mLen,
      mCurrentPtr |-> w.mCurrentPtr, mBase |-> w.mBase,
      mFloatFormat |-> w.mFloatFormat, hi |-> hi, short |-> short ]

\* the base of a new writer
InitialBase == 10

\* the float format of a new writer
InitialFloatFormat == "fixed"

\* $ + talker + msg + ,
Preamble(talker, msg) == << ByteDollar >> \o talker \o msg \o << ByteComma >>

\* a capacity test that also refuses a preamble that fits exactly
PreambleTooBig_OffByOne(capacity, required) == capacity <= required

\* the constructor's capacity test
PreambleTooBig(capacity, required) == capacity < required

\* the constructor, on memory m of which the first capacity bytes are the buffer
NMEAInsertionStream(m, capacity, talker, msg) ==
    LET w0 == [ mCapacity |-> capacity, mem |-> m, mLen |-> 0, mCurrentPtr |-> 0,
                mBase |-> InitialBase, mFloatFormat |-> InitialFloatFormat ]
        tLen == Len(talker)
        mLenLocal == Len(msg)
        required == 1 + tLen + mLenLocal + 1
    IN  IF PreambleTooBig(capacity, required)
        THEN Result(w0, -1, TRUE)
        ELSE Result([ w0 EXCEPT !.mem = Store(m, 0, Preamble(talker, msg)),
                                !.mCurrentPtr = required,
                                !.mLen = required ],
                    required - 1, FALSE)

\* a format that prints the low 16 bits in exactly four hex digits
IntText_FourDigits(base, i) ==
    IF base = 10 THEN FormatD(i) \o << ByteComma >>
    ELSE << ByteDigit0, ByteLowerX >> \o ZeroPad(HexDigits(i % 65536), 4) \o << ByteComma >>

\* resetBuffer(): the cursor goes back to the start of the buffer
resetBuffer(w) == Result([ w EXCEPT !.mCurrentPtr = 0 ], -1, FALSE)

\* the text operator<<(int) formats
IntText(base, i) ==
    IF base = 10 THEN FormatD(i) \o << ByteComma >>
    ELSE Format0x04X(i) \o << ByteComma >>

\* operator<<(int)
InsertInt(w, i) ==
    LET remaining == SizeSub(w.mCapacity, w.mLen)
        text == IntText(w.mBase, i)
        sn == Snprintf(w.mem, w.mCurrentPtr, remaining, text)
        written == sn.ret
    IN  IF written > 0
        THEN Result([ w EXCEPT !.mem = sn.mem,
                               !.mLen = w.mLen + written,
                               !.mCurrentPtr = w.mCurrentPtr + written ],
                    sn.hi, written >= remaining)
        ELSE Result([ w EXCEPT !.mem = sn.mem ], sn.hi, written >= remaining)

\* operator<<(double), the double being d millionths
InsertDouble(w, d) ==
    LET text == FormatF(d) \o << ByteComma >>
        sp == Sprintf(w.mem, w.mCurrentPtr, text)
        sz == sp.ret
    IN  Result([ w EXCEPT !.mem = sp.mem,
                          !.mLen = w.mLen + sz,
                          !.mCurrentPtr = w.mCurrentPtr + sz ],
               sp.hi, SizeSub(w.mCapacity, w.mLen) < sz + 1)

\* the capacity test of operator<<(const std::string&)
StringTooBig(capacity, len, sz) == SizeSub(capacity, len) < sz + 1

\* operator<<(const std::string&)
InsertString(w, s) ==
    LET sz == Len(s)
    IN  IF StringTooBig(w.mCapacity, w.mLen, sz)
        THEN Result(w, -1, TRUE)
        ELSE Result([ w EXCEPT !.mem = Store(w.mem, w.mCurrentPtr, s \o << ByteComma >>),
                               !.mCurrentPtr = w.mCurrentPtr + sz + 1,
                               !.mLen = w.mLen + (sz + 1) ],
                    w.mCurrentPtr + sz, FALSE)

\* operator<<(const Register32Bits&), rv being the int reg.toUInt() converts to
InsertRegister(w, rv) == InsertInt(w, rv)

\* operator<<(EmptyField)
InsertEmptyField(w) ==
    Result([ w EXCEPT !.mem = Store(w.mem, w.mCurrentPtr, << ByteComma >>),
                      !.mLen = w.mLen + 1,
                      !.mCurrentPtr = w.mCurrentPtr + 1 ],
           w.mCurrentPtr, SizeSub(w.mCapacity, w.mLen) < 1)

\* operator<<(const FloatFormat&)
InsertFloatFormat(w, format) == Result([ w EXCEPT !.mFloatFormat = format ], -1, FALSE)

\* a toggle that also writes the prefix of a hex number
InsertHex_WritesPrefix(w) ==
    Result([ w EXCEPT !.mBase = 16,
                      !.mem = Store(w.mem, w.mCurrentPtr, << ByteDigit0, ByteLowerX >>),
                      !.mLen = w.mLen + 2,
                      !.mCurrentPtr = w.mCurrentPtr + 2 ],
           w.mCurrentPtr + 1, FALSE)

\* operator<<(const Hex&)
InsertHex(w) == Result([ w EXCEPT !.mBase = 16 ], -1, FALSE)

\* operator<<(const Dec&)
InsertDec(w) == Result([ w EXCEPT !.mBase = 10 ], -1, FALSE)

\* bytes operator<<(const EndMsg&) needs: "*HH\r\n" and a NUL
Required == 6

\* the text operator<<(const EndMsg&) formats
EndText(checksum) == << ByteStar >> \o Format02X(checksum) \o << ByteCR, ByteLF >>

\* a first test that lets an empty writer through
NothingWritten_Never(len) == FALSE

\* the first test of operator<<(const EndMsg&)
NothingWritten(len) == len = 0

\* operator<<(const EndMsg&); ghost is the byte a read outside the buffer
\* finds.  done tells whether "*HH\r\n" was formatted
InsertEndMsg(w, ghost) ==
    IF NothingWritten(w.mLen)
    THEN [ r |-> Result(w, -1, FALSE), done |-> FALSE ]
    ELSE
    LET comma == ReadByte(w.mem, w.mCurrentPtr - 1, ghost) = ByteComma
        cur1 == IF comma THEN w.mCurrentPtr - 1 ELSE w.mCurrentPtr
        len1 == IF comma THEN w.mLen - 1 ELSE w.mLen
        w1 == [ w EXCEPT !.mCurrentPtr = cur1, !.mLen = len1 ]
    IN  IF SizeSub(w.mCapacity, len1) < Required
        THEN [ r |-> Result(w1, -1, TRUE), done |-> FALSE ]
        ELSE
        LET m1 == Store(w.mem, cur1, << ByteZero >>)
            checksum == calculateNMEAChecksum(Bytes(m1, len1, ghost), len1)
            remaining == SizeSub(w.mCapacity, len1)
            sn == Snprintf(m1, cur1, remaining, EndText(checksum))
            sz == sn.ret
        IN  IF sz >= remaining
            THEN [ r |-> Result([ w1 EXCEPT !.mem = sn.mem,
                                            !.mCurrentPtr = w.mCapacity,
                                            !.mLen = w.mCapacity ],
                                Max(cur1, sn.hi), TRUE),
                   done |-> TRUE ]
            ELSE [ r |-> Result([ w1 EXCEPT
                                    !.mem = IF len1 + sz < w.mCapacity
                                            THEN Store(sn.mem, cur1 + sz, << ByteZero >>)
                                            ELSE sn.mem,
                                    !.mCurrentPtr = cur1 + sz,
                                    !.mLen = len1 + sz ],
                                Max(cur1, sn.hi), FALSE),
                   done |-> TRUE ]


(***************************************************************************)
(* The writer as a state machine.                                          *)
(***************************************************************************)
\* no reader yet
NoReader ==
    /\ xPhase = "none"
    /\ mNMEAMessage = << >>
    /\ mFields = << >>
    /\ mFieldIdx = 1
    /\ mErrorFlag = FALSE
    /\ mChecksumValidFlag = FALSE
    /\ mChecksum = 0
    /\ xTalker = << >>
    /\ xMessage = << >>
    /\ outs = << >>
    /\ resets = 0
    /\ anyFailed = FALSE
    /\ oob = FALSE

\* the containers of the model
Boxes == { 1, 2 }

\* a container that is not constructed
Unborn ==
    [ born |-> FALSE, self_ |-> 0, talker_ |-> << ByteZero, ByteZero >>,
      messageName_ |-> << ByteZero, ByteZero, ByteZero >>, checksum_ |-> 0,
      size_ |-> 0 ]

\* no container
NoContainers ==
    /\ boxes = [ c \in Boxes |-> Unborn ]
    /\ heap = << >>
    /\ thrown = "none"
    /\ lastOp = [ op |-> "none" ]
    /\ aCalls = 0

\* no call of validateNMEAMessage on its own
NoValidateCall ==
    /\ vlMsg = << >>
    /\ vlDone = FALSE
    /\ vlResult = FALSE

\* no call of calculateNMEAChecksum or validateNMEAMessage on its own
NoChecksumCall ==
    /\ ckData = << >>
    /\ ckLength = 0
    /\ ckResult = -1
    /\ NoValidateCall

\* a zero-filled buffer of one of the given capacities, not yet given to a writer
NewBuffer(capacities) ==
    /\ mCapacity \in capacities
    /\ mem = [ j \in 1..mCapacity |-> ByteZero ]
    /\ mLen = 0
    /\ mCurrentPtr = 0
    /\ mBase = InitialBase
    /\ mFloatFormat = InitialFloatFormat
    /\ mTalker = << >>
    /\ mMsg = << >>
    /\ phase = "new"
    /\ hiStore = -1
    /\ vals = << >>
    /\ nFinal = 0
    /\ nDone = 0
    /\ insufficient = FALSE

Init == NewBuffer(Capacities) /\ NoReader /\ NoChecksumCall /\ NoContainers

\* the members and the history after an operation op with result r; a store
\* outside the buffer is undefined behaviour: the program goes on with the
\* neighbouring memory overwritten, or stops
Commit(r, isAppend) ==
    /\ mem' = r.mem
    /\ mLen' = r.mLen
    /\ mCurrentPtr' = r.mCurrentPtr
    /\ mBase' = r.mBase
    /\ mFloatFormat' = r.mFloatFormat
    /\ hiStore' = Max(hiStore, r.hi)
    /\ insufficient' = (insufficient \/ (isAppend /\ r.short))
    /\ phase' \in (IF r.hi >= mCapacity THEN { "open", "fault" } ELSE { "open" })
    /\ UNCHANGED << mCapacity, xvars, cvars, avars >>

ConstructFrom(talkers, messages) ==
    /\ phase = "new"
    /\ \E talker \in talkers, msg \in messages :
        /\ Commit(NMEAInsertionStream(mem, mCapacity, talker, msg), FALSE)
        /\ mTalker' = talker
        /\ mMsg' = msg
    /\ UNCHANGED << vals, nFinal, nDone >>

\* the writer is constructed and the model lets it go on
CanWrite == phase = "open" /\ Len(vals) + nFinal < MaxOps

AppendIntFrom(values) ==
    /\ CanWrite
    /\ \E i \in values :
        /\ Commit(InsertInt(Writer, i), TRUE)
        /\ vals' = Append(vals, [ t |-> "int", v |-> i, base |-> mBase ])
    /\ UNCHANGED << mTalker, mMsg, nFinal, nDone >>

AppendDouble ==
    /\ CanWrite
    /\ \E d \in DoubleValues :
        /\ Commit(InsertDouble(Writer, d), TRUE)
        /\ vals' = Append(vals, [ t |-> "double", v |-> d, base |-> 10 ])
    /\ UNCHANGED << mTalker, mMsg, nFinal, nDone >>

AppendStringFrom(values) ==
    /\ CanWrite
    /\ \E s \in values :
        /\ Commit(InsertString(Writer, s), TRUE)
        /\ vals' = Append(vals, [ t |-> "text", v |-> s, base |-> 10 ])
    /\ UNCHANGED << mTalker, mMsg, nFinal, nDone >>

AppendRegisterFrom(values) ==
    /\ CanWrite
    /\ \E rv \in values :
        /\ Commit(InsertRegister(Writer, rv), TRUE)
        /\ vals' = Append(vals, [ t |-> "register", v |-> rv, base |-> mBase ])
    /\ UNCHANGED << mTalker, mMsg, nFinal, nDone >>

AppendRegister == AppendRegisterFrom(RegisterValues)

AppendEmptyField ==
    /\ CanWrite
    /\ Commit(InsertEmptyField(Writer), TRUE)
    /\ vals' = Append(vals, [ t |-> "empty", v |-> << >>, base |-> 10 ])
    /\ UNCHANGED << mTalker, mMsg, nFinal, nDone >>

SetFloatFormat ==
    /\ phase = "open"
    /\ \E format \in FloatFormats : Commit(InsertFloatFormat(Writer, format), FALSE)
    /\ UNCHANGED << mTalker, mMsg, vals, nFinal, nDone >>

SetHex ==
    /\ phase = "open"
    /\ Commit(InsertHex(Writer), FALSE)
    /\ UNCHANGED << mTalker, mMsg, vals, nFinal, nDone >>

SetDec ==
    /\ phase = "open"
    /\ Commit(InsertDec(Writer), FALSE)
    /\ UNCHANGED << mTalker, mMsg, vals, nFinal, nDone >>

Finalize ==
    /\ CanWrite
    /\ \E ghost \in GhostBytes :
        LET e == InsertEndMsg(Writer, ghost)
        IN  /\ Commit(e.r, FALSE)
            /\ nFinal' = nFinal + 1
            /\ nDone' = IF e.done THEN nDone + 1 ELSE nDone
    /\ UNCHANGED << mTalker, mMsg, vals >>

ResetBuffer ==
    /\ phase = "open"
    /\ Commit(resetBuffer(Writer), FALSE)
    /\ UNCHANGED << mTalker, mMsg, vals, nFinal, nDone >>

Construct == ConstructFrom(Talkers, Messages)

AppendInt == AppendIntFrom(IntValues)

AppendString == AppendStringFrom(TextValues)

Next ==
    \/ Construct
    \/ AppendInt
    \/ AppendDouble
    \/ AppendString
    \/ AppendRegister
    \/ AppendEmptyField
    \/ SetFloatFormat
    \/ SetHex
    \/ SetDec
    \/ Finalize

Spec == Init /\ [][Next]_vars

(***************************************************************************)
(* Claims about the writer.                                                *)
(***************************************************************************)
\* the bytes the writer reports: offsets [0, mLen)
Sentence == Bytes(mem, mLen, ByteZero)

\* C1: after any sequence of writer operations the recorded length never
\* exceeds the capacity of the buffer
C1_LengthWithinCapacity == mLen <= mCapacity

\* C2: every byte a writer operation stores lands at an offset in [0, C)
C2_StoresInsideBuffer == hiStore < mCapacity

\* C3: once an append has found the capacity insufficient the length is
\* clamped to the capacity, and every later append leaves buffer and length
\* unchanged
C3_ClampedThenNoOp ==
    [][ /\ insufficient' => mLen' = mCapacity'
        /\ (insufficient /\ Len(vals') > Len(vals)) => (mem' = mem /\ mLen' = mLen)
      ]_vars

\* a writer on which nothing but the constructor has stored
JustConstructed == phase = "open" /\ vals = << >> /\ nFinal = 0

\* C4: the constructor writes exactly $ + T + M + , from offset 0 and sets
\* the length to 1+|T|+|M|+1 when that fits the capacity; otherwise it
\* stores nothing and the length stays 0
C4_ConstructorPreamble ==
    JustConstructed =>
        LET required == 1 + Len(mTalker) + Len(mMsg) + 1
        IN  IF mCapacity >= required
            THEN /\ mLen = required
                 /\ Sentence = << ByteDollar >> \o mTalker \o mMsg \o << ByteComma >>
                 /\ hiStore = required - 1
                 /\ \A j \in (required + 1)..mCapacity : mem[j] = ByteZero
            ELSE /\ mLen = 0
                 /\ hiStore = -1
                 /\ \A j \in 1..mCapacity : mem[j] = ByteZero

\* C4: the preamble fits exactly, and a preamble that does not fit
C4_Witness ==
    /\ JustConstructed
    /\ mCapacity = 1 + Len(mTalker) + Len(mMsg) + 1
    /\ mLen = mCapacity

\* C8: once a finalize has completed (here: on a writer that never ran out
\* of capacity), every later append and finalize leaves the buffer and the
\* length as that finalize left them
C8_FinalizedIsTerminal ==
    [][ (nDone >= 1 /\ ~insufficient /\ hiStore < mCapacity)
            => (mem' = mem /\ mLen' = mLen) ]_vars

\* C9 as stated: a finalize on a writer to which no field has been appended
\* leaves buffer and length unchanged
C9_NoFieldsNoOp ==
    [][ (nFinal' = nFinal + 1 /\ vals = << >>) =>
            (mem' = mem /\ mLen' = mLen /\ hiStore' = hiStore) ]_vars

\* C9 amended: a finalize on a writer whose length is 0 (the preamble did
\* not fit) stores nothing and leaves buffer and length unchanged
C9_ZeroLengthNoOp ==
    [][ (nFinal' = nFinal + 1 /\ mLen = 0) =>
            (mem' = mem /\ mLen' = mLen /\ mCurrentPtr' = mCurrentPtr /\ hiStore' = hiStore) ]_vars

\* C9: a finalize has been called on a writer whose preamble did not fit
C9_Witness == nFinal >= 1 /\ vals = << >> /\ mLen = 0 /\ phase = "open"


RECURSIVE XorAll(_)
\* the XOR of all the bytes of s
XorAll(s) == IF s = << >> THEN 0 ELSE BitXor(s[1], XorAll(Tail(s)))

\* the text of an appended field in decimal mode
FieldText(e) ==
    CASE e.t = "int" -> FormatD(e.v)
      [] e.t = "register" -> FormatD(e.v)
      [] e.t = "double" -> FormatF(e.v)
      [] e.t = "text" -> e.v
      [] e.t = "empty" -> << >>

RECURSIVE JoinFields(_)
\* f1 , f2 , ... , fn
JoinFields(es) ==
    IF Len(es) = 1 THEN FieldText(es[1])
    ELSE FieldText(es[1]) \o << ByteComma >> \o JoinFields(Tail(es))

\* $TTMMM,f1,...,fn without the checksum
ExpectedBody(es) == << ByteDollar >> \o mTalker \o mMsg \o << ByteComma >> \o JoinFields(es)

\* $TTMMM,f1,...,fn*HH\r\n, HH being the XOR of everything after the $
ExpectedSentence(es) ==
    ExpectedBody(es) \o << ByteStar >> \o Format02X(XorAll(Tail(ExpectedBody(es))))
                     \o << ByteCR, ByteLF >>

\* every field was appended in decimal mode
AllDecimal(es) == \A k \in 1..Len(es) : es[k].base = 10

\* C5: with ample capacity, the first finalize after n >= 1 decimal-mode
\* appends leaves $TTMMM,f1,...,fn*HH\r\n in bytes [0, length), HH being the
\* XOR of bytes [1, cursor), and the NUL after it is not counted
C5_FinalizedSentence ==
    [][ ( /\ nFinal = 0
          /\ nFinal' = 1
          /\ Len(vals) >= 1
          /\ AllDecimal(vals)
          /\ mCapacity >= Len(ExpectedSentence(vals)) + 1 )
        => ( /\ mLen' = Len(ExpectedSentence(vals))
             /\ Bytes(mem', mLen', ByteZero) = ExpectedSentence(vals)
             /\ mem'[mLen' + 1] = ByteZero )
      ]_vars

\* C6: in the sentence a successful finalize produces, the two hex digits
\* after the final * encode the XOR of all bytes strictly between the
\* leading $ and that *
C6_ChecksumCoversBody ==
    [][ ( /\ nDone = 0
          /\ nDone' = 1
          /\ mLen <= mCapacity
          /\ mLen' <= mCapacity )
        => ( /\ mem'[mLen' - 4] = ByteStar
             /\ SubSeq(mem', mLen' - 3, mLen' - 2)
                    = Format02X(XorAll(SubSeq(mem', 2, mLen' - 5))) )
      ]_vars


(***************************************************************************)
(* calculateNMEAChecksum on its own.                                       *)
(***************************************************************************)
\* the strings of at most MaxData bytes
DataStrings == UNION { [ 1..n -> DataBytes ] : n \in 0..MaxData }

\* no writer
NoWriter ==
    /\ mCapacity = 0
    /\ mem = << >>
    /\ mLen = 0
    /\ mCurrentPtr = 0
    /\ mBase = InitialBase
    /\ mFloatFormat = InitialFloatFormat
    /\ mTalker = << >>
    /\ mMsg = << >>
    /\ phase = "none"
    /\ hiStore = -1
    /\ vals = << >>
    /\ nFinal = 0
    /\ nDone = 0
    /\ insufficient = FALSE

InitChecksum ==
    /\ NoWriter
    /\ NoReader
    /\ NoContainers
    /\ ckData \in DataStrings
    /\ ckLength \in 0..Len(ckData)
    /\ ckResult = -1
    /\ NoValidateCall

CallChecksum ==
    /\ ckResult = -1
    /\ ckResult' = calculateNMEAChecksum(ckData, ckLength)
    /\ UNCHANGED << ckData, ckLength, vlMsg, vlDone, vlResult, wvars, xvars, avars >>

NextChecksum == CallChecksum

SpecChecksum == InitChecksum /\ [][NextChecksum]_vars

\* the offsets in [1, length) that hold a *
StarOffsets(data, length) == { o \in 1..(length - 1) : data[o + 1] = ByteStar }

\* the offset of the first * in [1, length), or length when there is none
FirstStarOrLength(data, length) ==
    IF StarOffsets(data, length) = { } THEN length
    ELSE CHOOSE o \in StarOffsets(data, length) :
            \A p \in StarOffsets(data, length) : o <= p

\* C10: checksum(data, length) is the XOR of the bytes at offsets 1..k-1, k
\* being the offset of the first * in [1, length) or length; byte 0 is never
\* included and the result is 0 when length <= 1
C10_ChecksumValue ==
    ckResult # -1 =>
        /\ ckResult = XorAll(SubSeq(ckData, 2, FirstStarOrLength(ckData, ckLength)))
        /\ (ckLength <= 1 => ckResult = 0)

\* C10: a checksum was taken of bytes with a * in the middle, a byte at
\* offset 0 and bytes behind the *
C10_Witness ==
    /\ ckResult # -1
    /\ ckLength = 4
    /\ ckData = << 36, 65, 42, 66 >>


(***************************************************************************)
(* validateNMEAMessage on its own.                                         *)
(***************************************************************************)
\* the byte at offset o of the C string with the characters s: a character,
\* or the terminating NUL
CStringByte(s, o) == IF o < Len(s) THEN s[o + 1] ELSE ByteZero

\* a validateNMEAMessage that looks at the byte behind the first
validateNMEAMessage_SecondByte(nmeaMsg) ==
    IF CStringByte(nmeaMsg, 1) # ByteDollar THEN FALSE ELSE TRUE

validateNMEAMessage(nmeaMsg) ==
    IF CStringByte(nmeaMsg, 0) # ByteDollar THEN FALSE ELSE TRUE

\* "$GPGGA,1*4B\r\n" (complete), "$GPGGA,1*00\r\n" (wrong checksum),
\* "$GPGGA,1*4B" (no CR LF), "$GP,1*4D\r\n" (short header)
ValidateSentences ==
    { << 36, 71, 80, 71, 71, 65, 44, 49, 42, 52, 66, 13, 10 >>,
      << 36, 71, 80, 71, 71, 65, 44, 49, 42, 48, 48, 13, 10 >>,
      << 36, 71, 80, 71, 71, 65, 44, 49, 42, 52, 66 >>,
      << 36, 71, 80, 44, 49, 42, 52, 68, 13, 10 >> }

InitValidate ==
    /\ NoWriter
    /\ NoReader
    /\ NoContainers
    /\ ckData = << >>
    /\ ckLength = 0
    /\ ckResult = -1
    /\ vlMsg \in DataStrings \cup ValidateSentences
    /\ vlDone = FALSE
    /\ vlResult = FALSE

CallValidate ==
    /\ ~vlDone
    /\ vlDone' = TRUE
    /\ vlResult' = validateNMEAMessage(vlMsg)
    /\ UNCHANGED << vlMsg, ckData, ckLength, ckResult, wvars, xvars, avars >>

NextValidate == CallValidate

SpecValidate == InitValidate /\ [][NextValidate]_vars

StartsWithHeader(s) ==
    /\ Len(s) >= 6
    /\ s[1] = ByteDollar
    /\ \A j \in 2..6 : s[j] # ByteComma /\ s[j] # ByteStar

\* the last two characters of s are CR LF
EndsWithCRLF(s) ==
    /\ Len(s) >= 2
    /\ s[Len(s) - 1] = ByteCR
    /\ s[Len(s)] = ByteLF

\* s ends, before its CR LF, in * and the two hex digits of the XOR of the
\* bytes between $ and that *
HasCorrectChecksum(s) ==
    /\ Len(s) >= 6
    /\ s[Len(s) - 4] = ByteStar
    /\ SubSeq(s, Len(s) - 3, Len(s) - 2) = Format02X(XorAll(SubSeq(s, 2, Len(s) - 5)))

\* C12: validateNMEAMessage returns true only for a message that starts with
\* $TTMMM, has a correct checksum and ends with CR LF, and false if any of
\* the three is incorrect
C12_TrueOnlyForCompleteSentence ==
    vlDone =>
        (vlResult <=> ( /\ StartsWithHeader(vlMsg)
                        /\ HasCorrectChecksum(vlMsg)
                        /\ EndsWithCRLF(vlMsg) ))


(***************************************************************************)
(* NMEAExtractionStream.                                                   *)
(***************************************************************************)
\* std::string_view::npos
npos == -1

\* the bytes trimTrailing removes: NUL, \r, \n and std::isspace
TrimmedBytes == { 0, 9, 10, 11, 12, 13, 32 }

RECURSIVE trimTrailing(_)
trimTrailing(sv) ==
    IF sv # << >> /\ sv[Len(sv)] \in TrimmedBytes
    THEN trimTrailing(SubSeq(sv, 1, Len(sv) - 1))
    ELSE sv

\* sv.substr(pos, count)
Substr(sv, pos, count) == SubSeq(sv, pos + 1, Min(Len(sv), pos + count))

\* sv.find(ch, from): offset of the first ch at or after from, or npos
Find(sv, ch, from) ==
    LET hits == { o \in from..(Len(sv) - 1) : sv[o + 1] = ch }
    IN  IF hits = { } THEN npos
        ELSE CHOOSE o \in hits : \A q \in hits : o <= q

\* sv.rfind(ch): offset of the last ch, or npos
RFind(sv, ch) ==
    LET hits == { o \in 0..(Len(sv) - 1) : sv[o + 1] = ch }
    IN  IF hits = { } THEN npos
        ELSE CHOOSE o \in hits : \A q \in hits : o >= q

\* the lambda hexVal of parseHex2
hexVal(ch) ==
    IF ch >= 48 /\ ch <= 57 THEN ch - 48
    ELSE IF ch >= 65 /\ ch <= 70 THEN ch - 65 + 10
    ELSE IF ch >= 97 /\ ch <= 102 THEN ch - 97 + 10
    ELSE -1

parseHex2(sv) ==
    IF Len(sv) < 2 THEN [ ok |-> FALSE, out |-> 0 ]
    ELSE IF hexVal(sv[1]) < 0 \/ hexVal(sv[2]) < 0 THEN [ ok |-> FALSE, out |-> 0 ]
    ELSE [ ok |-> TRUE, out |-> hexVal(sv[1]) * 16 + hexVal(sv[2]) ]

RECURSIVE SplitLoop(_, _, _)
\* the while loop of parseMessage, from offset start with the fields so far
SplitLoop(body, start, fields) ==
    IF start <= Len(body)
    THEN LET commaPos == Find(body, ByteComma, start)
         IN  IF commaPos = npos
             THEN Append(fields, Substr(body, start, Len(body)))
             ELSE IF commaPos + 1 = Len(body)
                  THEN Append(Append(fields, Substr(body, start, commaPos - start)), << >>)
                  ELSE SplitLoop(body, commaPos + 1,
                                 Append(fields, Substr(body, start, commaPos - start)))
    ELSE fields

\* a parseMessage that cuts the body at the last *
parseMessage_LastStar(message) ==
    LET m1 == trimTrailing(message)
    IN  IF m1 = << >> \/ m1[1] # ByteDollar
        THEN << >>
        ELSE LET starPos == RFind(m1, ByteStar)
                 m2 == IF starPos # npos THEN trimTrailing(Substr(m1, 0, starPos)) ELSE m1
                 body == Substr(m2, 1, Len(m2))
             IN  SplitLoop(body, 0, << >>)

parseMessage(message) ==
    LET m1 == trimTrailing(message)
    IN  IF m1 = << >> \/ m1[1] # ByteDollar
        THEN << >>
        ELSE LET starPos == Find(m1, ByteStar, 0)
                 m2 == IF starPos # npos THEN trimTrailing(Substr(m1, 0, starPos)) ELSE m1
                 body == Substr(m2, 1, Len(m2))
             IN  SplitLoop(body, 0, << >>)

\* a constructor that asks for a header of more than 5 characters
NMEAExtractionStream_LongerHeader(nmeaMessage) ==
    LET msg == trimTrailing(nmeaMessage)
        star == RFind(msg, ByteStar)
        hasHex == star # npos /\ star + 3 <= Len(msg)
        hex == IF hasHex THEN parseHex2(Substr(msg, star + 1, 2))
               ELSE [ ok |-> FALSE, out |-> 0 ]
        computed == IF hex.ok THEN calculateNMEAChecksum(nmeaMessage, star + 1) ELSE 0
        fields == parseMessage(msg)
        header == Len(fields) > 0 /\ Len(fields[1]) > 5
    IN  [ mChecksum |-> IF hex.ok THEN hex.out ELSE 0,
          mChecksumValidFlag |-> hex.ok /\ computed = hex.out,
          mFields |-> fields,
          mTalker |-> IF header THEN Substr(fields[1], 0, 2) ELSE << 88, 88 >>,
          mMessage |-> IF header THEN Substr(fields[1], 2, 3) ELSE << 89, 89, 89 >>,
          mFieldIdx |-> 1,
          mErrorFlag |-> FALSE ]

\* the constructor: the members of a reader on the bytes nmeaMessage
NMEAExtractionStream(nmeaMessage) ==
    LET msg == trimTrailing(nmeaMessage)
        star == RFind(msg, ByteStar)
        hasHex == star # npos /\ star + 3 <= Len(msg)
        hex == IF hasHex THEN parseHex2(Substr(msg, star + 1, 2))
               ELSE [ ok |-> FALSE, out |-> 0 ]
        computed == IF hex.ok THEN calculateNMEAChecksum(nmeaMessage, star + 1) ELSE 0
        fields == parseMessage(msg)
        header == Len(fields) > 0 /\ Len(fields[1]) >= 5
    IN  [ mChecksum |-> IF hex.ok THEN hex.out ELSE 0,
          mChecksumValidFlag |-> hex.ok /\ computed = hex.out,
          mFields |-> fields,
          mTalker |-> IF header THEN Substr(fields[1], 0, 2) ELSE << 88, 88 >>,
          mMessage |-> IF header THEN Substr(fields[1], 2, 3) ELSE << 89, 89, 89 >>,
          mFieldIdx |-> 1,
          mErrorFlag |-> FALSE ]

\* a nextField that lets the index run one past the last field
nextField_OnePastEnd(fields, idx) ==
    IF idx > Len(fields)
    THEN [ f |-> << >>, idx |-> idx, err |-> TRUE, at |-> npos ]
    ELSE [ f |-> IF idx < Len(fields) THEN fields[idx + 1] ELSE << >>,
           idx |-> idx + 1, err |-> FALSE, at |-> idx ]

\* a nextField that moves on by two fields
nextField_SkipsOne(fields, idx) ==
    IF idx >= Len(fields)
    THEN [ f |-> << >>, idx |-> idx, err |-> TRUE, at |-> npos ]
    ELSE [ f |-> fields[idx + 1], idx |-> idx + 2, err |-> FALSE, at |-> idx ]

\* a nextField that hands out the field without moving on
nextField_NoAdvance(fields, idx) ==
    IF idx >= Len(fields)
    THEN [ f |-> << >>, idx |-> idx, err |-> TRUE, at |-> npos ]
    ELSE [ f |-> fields[idx + 1], idx |-> idx, err |-> FALSE, at |-> idx ]

\* nextField: the field handed out, the index afterwards, whether the error
\* flag is set, the position at which mFields was indexed (npos: not at all)
nextField(fields, idx) ==
    IF idx >= Len(fields)
    THEN [ f |-> << >>, idx |-> idx, err |-> TRUE, at |-> npos ]
    ELSE [ f |-> fields[idx + 1], idx |-> idx + 1, err |-> FALSE, at |-> idx ]

\* INT_MAX
IntMax == 2147483647

IsDigit(ch) == ch >= 48 /\ ch <= 57

RECURSIVE DigitRun(_, _)
\* the number of digits of f from position p (1-based) on
DigitRun(f, p) == IF p <= Len(f) /\ IsDigit(f[p]) THEN 1 + DigitRun(f, p + 1) ELSE 0

RECURSIVE Magnitude(_, _, _, _)
\* the digits f[p..q] accumulated onto acc; -1 once the value exceeds INT_MAX
Magnitude(f, p, q, acc) ==
    IF p > q THEN acc
    ELSE LET d == f[p] - 48
         IN  IF acc > IntMax \div 10 \/ (acc = IntMax \div 10 /\ d > IntMax % 10)
             THEN -1
             ELSE Magnitude(f, p + 1, q, acc * 10 + d)

\* INT_MIN
IntMin == -2147483647 - 1

RECURSIVE NegMagnitude(_, _, _, _)
\* the digits f[p..q] accumulated below acc <= 0; 1 once the value is under INT_MIN
NegMagnitude(f, p, q, acc) ==
    IF p > q THEN acc
    ELSE LET d == f[p] - 48
             lim == 0 - (IntMax \div 10)
         IN  IF acc < lim \/ (acc = lim /\ d > (IntMax % 10) + 1)
             THEN 1
             ELSE NegMagnitude(f, p + 1, q, acc * 10 - d)

\* a from_chars that takes a '+' in front as well
FromCharsInt_PlusSign(f) ==
    LET signed == f # << >> /\ f[1] \in { ByteMinus, 43 }
        neg == f # << >> /\ f[1] = ByteMinus
        p == IF signed THEN 2 ELSE 1
        n == DigitRun(f, p)
        v == IF neg THEN NegMagnitude(f, p, p + n - 1, 0) ELSE Magnitude(f, p, p + n - 1, 0)
    IN  IF n = 0 \/ v = (IF neg THEN 1 ELSE -1) \/ p + n - 1 # Len(f)
        THEN [ ok |-> FALSE, v |-> 0 ]
        ELSE [ ok |-> TRUE, v |-> v ]

\* std::from_chars(begin, end, v, 10) on an int: an optional '-' and the
\* longest run of digits; ok is res.ec == std::errc{} && res.ptr == end
FromCharsInt(f) ==
    LET neg == f # << >> /\ f[1] = ByteMinus
        p == IF neg THEN 2 ELSE 1
        n == DigitRun(f, p)
        v == IF neg THEN NegMagnitude(f, p, p + n - 1, 0) ELSE Magnitude(f, p, p + n - 1, 0)
    IN  IF n = 0 \/ v = (IF neg THEN 1 ELSE -1) \/ p + n - 1 # Len(f)
        THEN [ ok |-> FALSE, v |-> 0 ]
        ELSE [ ok |-> TRUE, v |-> v ]

\* operator>>(int&): value, index and error flag afterwards
ExtractInt(fields, idx, err) ==
    LET nf == nextField(fields, idx)
        res == FromCharsInt(nf.f)
    IN  IF nf.f = << >>
        THEN [ value |-> 0, idx |-> nf.idx, err |-> TRUE, at |-> nf.at ]
        ELSE IF ~res.ok
        THEN [ value |-> 0, idx |-> nf.idx, err |-> TRUE, at |-> nf.at ]
        ELSE [ value |-> res.v, idx |-> nf.idx, err |-> err \/ nf.err, at |-> nf.at ]

\* operator>>(NMEAExtractionStream&, messageResult_t&), v being the target
\* before the call: the int is extracted, then the switch assigns or not
ExtractMessageResult(fields, idx, err, v) ==
    The({ [ value |-> IF r.value = 0 THEN "NACK"
                      ELSE IF r.value = 1 THEN "ACK"
                      ELSE v,
            idx |-> r.idx, err |-> r.err, at |-> r.at ] :
          r \in { ExtractInt(fields, idx, err) } })

\* operator>>(NMEAExtractionStream&, memoryClass_t&), v being the target
\* before the call
ExtractMemoryClass(fields, idx, err, v) ==
    The({ [ value |-> IF r.value = 1 THEN "VOLATILE"
                      ELSE IF r.value = 2 THEN "NONVOLATILE"
                      ELSE v,
            idx |-> r.idx, err |-> r.err, at |-> r.at ] :
          r \in { ExtractInt(fields, idx, err) } })

\* operator>>(std::string&)
ExtractString(fields, idx, err) ==
    LET nf == nextField(fields, idx)
    IN  [ value |-> nf.f, idx |-> nf.idx, err |-> err \/ nf.err, at |-> nf.at ]


\* std::isspace in the "C" locale
IsSpace(ch) == ch \in { 9, 10, 11, 12, 13, 32 }

\* isHexDigit
isHexDigit(c) ==
    \/ (c >= 48 /\ c <= 57)
    \/ (c >= 97 /\ c <= 102)
    \/ (c >= 65 /\ c <= 70)

\* the digit of base 10 or 16 that ch is, -1 when it is none
DigitOf(ch, base) ==
    IF IsDigit(ch) THEN ch - 48
    ELSE IF base = 16 /\ isHexDigit(ch) THEN hexVal(ch)
    ELSE -1

RECURSIVE Run(_, _, _)
\* the number of digits of the base that s has from position p (1-based) on
Run(s, p, base) ==
    IF p <= Len(s) /\ DigitOf(s[p], base) >= 0 THEN 1 + Run(s, p + 1, base) ELSE 0

RECURSIVE Accumulate(_, _, _, _, _)
\* the digits s[p..q] of the base accumulated onto acc
Accumulate(s, p, q, base, acc) ==
    IF p > q THEN acc
    ELSE Accumulate(s, p + 1, q, base, acc * base + DigitOf(s[p], base))

RECURSIVE Power(_, _)
Power(base, n) == IF n = 0 THEN 1 ELSE base * Power(base, n - 1)

RECURSIVE Gcd(_, _)
Gcd(a, b) == IF b = 0 THEN a ELSE Gcd(b, a % b)

\* the double with the value num / den, as the fraction in lowest terms
\* (the literals of the model are short: each is the double nearest to its
\* value, and different values are different doubles)
Double(num, den) ==
    LET g == Gcd(IF num < 0 THEN 0 - num ELSE num, den)
    IN  [ num |-> num \div g, den |-> den \div g ]

\* the double 0.0
DoubleZero == [ num |-> 0, den |-> 1 ]

RECURSIVE SkipSpace(_, _)
\* the first position from p on that holds no white space
SkipSpace(s, p) == IF p <= Len(s) /\ IsSpace(s[p]) THEN SkipSpace(s, p + 1) ELSE p

\* the characters of the C string that starts with the bytes s: those before
\* the first NUL
CString(s) ==
    LET z == Find(s, ByteZero, 0)
    IN  IF z = npos THEN s ELSE Substr(s, 0, z)

\* std::strtod on the C string s: white space, an optional sign, then
\* decimal digits with an optional point, or 0x and hex digits with an
\* optional point.  end is the number of characters up to endPtr (0: no
\* conversion).  Exponents, "inf" and "nan" are not modelled: the fields of
\* the model have neither, and are too short to set errno to ERANGE.
Strtod(s) ==
    LET p0 == SkipSpace(s, 1)
        signed == p0 <= Len(s) /\ s[p0] \in { 43, ByteMinus }
        neg == signed /\ s[p0] = ByteMinus
        p1 == IF signed THEN p0 + 1 ELSE p0
        prefixed == /\ p1 + 1 <= Len(s)
                    /\ s[p1] = ByteDigit0
                    /\ s[p1 + 1] \in { ByteLowerX, 88 }
        isHex == /\ prefixed
                 /\ \/ Run(s, p1 + 2, 16) > 0
                    \/ ( /\ p1 + 2 <= Len(s)
                         /\ s[p1 + 2] = ByteDot
                         /\ Run(s, p1 + 3, 16) > 0 )
        base == IF isHex THEN 16 ELSE 10
        m == IF isHex THEN p1 + 2 ELSE p1
        ni == Run(s, m, base)
        hasDot == m + ni <= Len(s) /\ s[m + ni] = ByteDot
        nf == IF hasDot THEN Run(s, m + ni + 1, base) ELSE 0
        conv == ni + nf > 0
        whole == Accumulate(s, m, m + ni - 1, base, 0)
        num == Accumulate(s, m + ni + 1, m + ni + nf, base, whole)
    IN  IF ~conv
        THEN [ end |-> 0, v |-> DoubleZero ]
        ELSE [ end |-> m + ni + (IF hasDot THEN 1 + nf ELSE 0) - 1,
               v |-> Double(IF neg THEN 0 - num ELSE num, Power(base, nf)) ]

\* an operator>>(double&) that leaves the error flag alone on a parse failure
ExtractDouble_NoFlag(fields, idx, err) ==
    LET nf == nextField(fields, idx)
        res == Strtod(CString(nf.f))
    IN  IF nf.f = << >>
        THEN [ value |-> DoubleZero, idx |-> nf.idx, err |-> TRUE, at |-> nf.at ]
        ELSE IF res.end = 0 \/ res.end # Len(CString(nf.f))
        THEN [ value |-> DoubleZero, idx |-> nf.idx, err |-> err \/ nf.err, at |-> nf.at ]
        ELSE [ value |-> res.v, idx |-> nf.idx, err |-> err \/ nf.err, at |-> nf.at ]

\* operator>>(double&): tmp is a std::string with the field, strtod reads its
\* c_str(), "*endPtr != '\0'" looks at the byte where strtod stopped
ExtractDouble(fields, idx, err) ==
    LET nf == nextField(fields, idx)
        res == Strtod(CString(nf.f))
    IN  IF nf.f = << >>
        THEN [ value |-> DoubleZero, idx |-> nf.idx, err |-> TRUE, at |-> nf.at ]
        ELSE IF res.end = 0 \/ res.end # Len(CString(nf.f))
        THEN [ value |-> DoubleZero, idx |-> nf.idx, err |-> TRUE, at |-> nf.at ]
        ELSE [ value |-> res.v, idx |-> nf.idx, err |-> err \/ nf.err, at |-> nf.at ]

RECURSIVE LeadingZeros(_, _)
\* the number of '0' characters s has from position p on
LeadingZeros(s, p) ==
    IF p <= Len(s) /\ s[p] = ByteDigit0 THEN 1 + LeadingZeros(s, p + 1) ELSE 0

RECURSIVE ShiftIn(_, _, _)
\* the hex digits hex[p..] shifted into the std::uint32_t acc, four bits a
\* digit; a std::uint32_t is held as the int of the same 32 bits (0x80000000
\* and above are the negative ints); not ok once a bit is shifted out
ShiftIn(hex, p, acc) ==
    IF p > Len(hex) THEN [ ok |-> TRUE, v |-> acc ]
    ELSE IF acc < 0 \/ acc >= TopDigit THEN [ ok |-> FALSE, v |-> 0 ]
    ELSE IF acc >= TopDigit \div 2
    THEN ShiftIn(hex, p + 1, (acc - TopDigit) * 16 + DigitOf(hex[p], 16))
    ELSE ShiftIn(hex, p + 1, acc * 16 + DigitOf(hex[p], 16))

\* a from_chars that keeps the low 32 bits of a longer number
FromCharsHex_Wraps(hex) ==
    ShiftIn(SubSeq(hex, Max(1, Len(hex) - 7), Len(hex)), 1, 0)

\* std::from_chars(first, last, v, 16) on a std::uint32_t, for characters
\* that are all hex digits: the value, or result_out_of_range
FromCharsHex(hex) == ShiftIn(hex, 1, 0)

\* operator>>(Register32Bits&)
ExtractRegister(fields, idx, err) ==
    LET nf == nextField(fields, idx)
        f == nf.f
        hex == IF Len(f) >= 2 /\ f[1] = ByteDigit0 /\ f[2] \in { ByteLowerX, 88 }
               THEN Substr(f, 2, Len(f))
               ELSE f
        bad == [ value |-> 0, idx |-> nf.idx, err |-> TRUE, at |-> nf.at ]
    IN  IF f = << >> THEN bad
        ELSE IF hex = << >> THEN bad
        ELSE IF \E j \in 1..Len(hex) : ~isHexDigit(hex[j]) THEN bad
        ELSE IF ~FromCharsHex(hex).ok THEN bad
        ELSE [ value |-> FromCharsHex(hex).v, idx |-> nf.idx,
               err |-> err \/ nf.err, at |-> nf.at ]

\* a reset() that rewinds to the header field
reset_ToHeader(idx) == 0

\* reset(): the field index afterwards
reset(idx) == 1

\* isChecksumValid(), on a reader whose mChecksumValidFlag is validFlag
isChecksumValid(validFlag) == FALSE

\* numberOfFields()
numberOfFields(fields) == Len(fields)


(***************************************************************************)
(* The reader as a state machine.                                          *)
(***************************************************************************)
\* a reader is constructed on the bytes nmeaMessage
ConstructOn(nmeaMessage) ==
    /\ xPhase = "none"
    /\ LET x == NMEAExtractionStream(nmeaMessage)
       IN  /\ mNMEAMessage' = nmeaMessage
           /\ mFields' = x.mFields
           /\ mFieldIdx' = x.mFieldIdx
           /\ mErrorFlag' = x.mErrorFlag
           /\ mChecksumValidFlag' = x.mChecksumValidFlag
           /\ mChecksum' = x.mChecksum
           /\ xTalker' = x.mTalker
           /\ xMessage' = x.mMessage
    /\ xPhase' = "open"
    /\ UNCHANGED << outs, resets, anyFailed, oob, wvars, cvars, avars >>

\* "2147483647" and "2147483648", the digits of INT_MAX and of -INT_MIN
IntMaxDigits == << 50, 49, 52, 55, 52, 56, 51, 54, 52, 55 >>
IntMinDigits == << 50, 49, 52, 55, 52, 56, 51, 54, 52, 56 >>

\* of two digit strings of one length, a is not the greater number
NotGreater(a, b) ==
    \/ a = b
    \/ \E k \in 1..Len(a) : a[k] < b[k] /\ \A j \in 1..(k - 1) : a[j] = b[j]

\* f is, as a whole, a base-10 literal of an int: an optional '-', then
\* digits, of a number from INT_MIN to INT_MAX
IsIntLiteral(f) ==
    LET neg == f # << >> /\ f[1] = ByteMinus
        p == IF neg THEN 2 ELSE 1
        z == LeadingZeros(f, p)
        sig == SubSeq(f, p + z, Len(f))
    IN  /\ p <= Len(f)
        /\ \A j \in p..Len(f) : IsDigit(f[j])
        /\ \/ Len(sig) < 10
           \/ Len(sig) = 10 /\ NotGreater(sig, IF neg THEN IntMinDigits ELSE IntMaxDigits)

\* f is, as a whole, a floating-point literal
IsFloatLiteral(f) == f # << >> /\ Strtod(f).end = Len(f)

\* f is, behind an optional 0x or 0X, a hex literal of 32 bits
IsHexLiteral(f) ==
    LET p == IF Len(f) >= 2 /\ f[1] = ByteDigit0 /\ f[2] \in { ByteLowerX, 88 }
             THEN 3 ELSE 1
    IN  /\ p <= Len(f)
        /\ \A j \in p..Len(f) : isHexDigit(f[j])
        /\ Len(f) - (p - 1) - LeadingZeros(f, p) <= 8

\* an extraction of type t is attempted past the last field, or on a field
\* that is no literal of the type
FailsAt(t, fields, idx) ==
    \/ idx >= Len(fields)
    \/ (t = "int" /\ ~IsIntLiteral(fields[idx + 1]))
    \/ (t = "double" /\ ~IsFloatLiteral(fields[idx + 1]))
    \/ (t = "register" /\ ~IsHexLiteral(fields[idx + 1]))

\* the members and the history after an extraction of type t with result r
Extracted(t, r) ==
    /\ mFieldIdx' = r.idx
    /\ mErrorFlag' = r.err
    /\ outs' = Append(outs, [ t |-> t, v |-> r.value, pass |-> resets ])
    /\ anyFailed' = (anyFailed \/ FailsAt(t, mFields, mFieldIdx))
    /\ oob' = (oob \/ (r.at # npos /\ r.at >= Len(mFields)))
    /\ UNCHANGED << xPhase, mNMEAMessage, mFields, mChecksumValidFlag, mChecksum,
                    xTalker, xMessage, resets, wvars, cvars, avars >>


(***************************************************************************)
(* A reader on its own: constructed on a sentence, then any extractions    *)
(* and resets.                                                             *)
(***************************************************************************)
ReaderSentences ==
    {
      \* the sentence of demoDeserialization, checksum 00 wrong: $GPGGA,42,123.456,STRING*00\r\n
      << 36, 71, 80, 71, 71, 65, 44, 52, 50, 44, 49, 50, 51, 46, 52, 53, 54, 44, 83, 84, 82, 73, 78, 71, 42, 48, 48, 13, 10 >>,
      \* trailing comma, checksum right: $GPGGA,1,2,*79\r\n
      << 36, 71, 80, 71, 71, 65, 44, 49, 44, 50, 44, 42, 55, 57, 13, 10 >>,
      \* no checksum, no terminator: $GPGGA,42
      << 36, 71, 80, 71, 71, 65, 44, 52, 50 >>,
      \* no $: GPGGA,1*0C
      << 71, 80, 71, 71, 65, 44, 49, 42, 48, 67 >>,
      \* short header: $GP,7*0C\r\n
      << 36, 71, 80, 44, 55, 42, 48, 67, 13, 10 >>,
      \* a malformed field before well-formed ones: $GPGGA,4x,0x1A,-7*14\r\n
      << 36, 71, 80, 71, 71, 65, 44, 52, 120, 44, 48, 120, 49, 65, 44, 45, 55, 42, 49, 52, 13, 10 >>,
      \* two *: HH is right for the bytes up to the last: $GPGGA,A*B,1*4E
      << 36, 71, 80, 71, 71, 65, 44, 65, 42, 66, 44, 49, 42, 52, 69 >>,
      \* a NUL inside a field: $GPGGA,1\0B,5*10\r\n
      << 36, 71, 80, 71, 71, 65, 44, 49, 0, 66, 44, 53, 42, 49, 48, 13, 10 >>,
      \* white space before *: $GPGGA,D *1E\r\n
      << 36, 71, 80, 71, 71, 65, 44, 68, 32, 42, 49, 69, 13, 10 >>,
      \* empty: 
      <<  >>,
      \* $ alone: $
      << 36 >>,
      \* one character behind *: $GPGGA,1*4
      << 36, 71, 80, 71, 71, 65, 44, 49, 42, 52 >>,
      \* no hex digits behind *: $GPGGA,1*ZZ
      << 36, 71, 80, 71, 71, 65, 44, 49, 42, 90, 90 >>,
      \* an empty field and a double: $GPGGA,,1.5*7C
      << 36, 71, 80, 71, 71, 65, 44, 44, 49, 46, 53, 42, 55, 67 >> }

InitReader ==
    /\ NoWriter
    /\ NoChecksumCall
    /\ NoContainers
    /\ xPhase = "none"
    /\ mNMEAMessage \in ReaderSentences
    /\ mFields = << >>
    /\ mFieldIdx = 1
    /\ mErrorFlag = FALSE
    /\ mChecksumValidFlag = FALSE
    /\ mChecksum = 0
    /\ xTalker = << >>
    /\ xMessage = << >>
    /\ outs = << >>
    /\ resets = 0
    /\ anyFailed = FALSE
    /\ oob = FALSE

ReaderConstruct == phase = "none" /\ ConstructOn(mNMEAMessage)

CanRead == phase = "none" /\ xPhase = "open" /\ Len(outs) + resets < MaxReads

ReadInt == CanRead /\ Extracted("int", ExtractInt(mFields, mFieldIdx, mErrorFlag))

ReadDouble == CanRead /\ Extracted("double", ExtractDouble(mFields, mFieldIdx, mErrorFlag))

ReadRegister ==
    CanRead /\ Extracted("register", ExtractRegister(mFields, mFieldIdx, mErrorFlag))

ReadString == CanRead /\ Extracted("text", ExtractString(mFields, mFieldIdx, mErrorFlag))

Reset ==
    /\ CanRead
    /\ mFieldIdx' = reset(mFieldIdx)
    /\ resets' = resets + 1
    /\ UNCHANGED << xPhase, mNMEAMessage, mFields, mErrorFlag, mChecksumValidFlag,
                    mChecksum, xTalker, xMessage, outs, anyFailed, oob, wvars, cvars, avars >>

NextReader ==
    \/ ReaderConstruct
    \/ ReadInt
    \/ ReadDouble
    \/ ReadRegister
    \/ ReadString
    \/ Reset

SpecReader == InitReader /\ [][NextReader]_vars


(***************************************************************************)
(* Properties of the reader.                                               *)
(***************************************************************************)
\* the offset of the last * of the sentence s, its terminator trimmed
SuffixStar(s) == RFind(trimTrailing(s), ByteStar)

\* s ends, before its terminator, in * and two hex digits
HasHexSuffix(s) ==
    /\ SuffixStar(s) # npos
    /\ SuffixStar(s) + 3 = Len(trimTrailing(s))
    /\ hexVal(s[SuffixStar(s) + 2]) >= 0
    /\ hexVal(s[SuffixStar(s) + 3]) >= 0

\* the value of the two hex digits HH of s
SuffixValue(s) == 16 * hexVal(s[SuffixStar(s) + 2]) + hexVal(s[SuffixStar(s) + 3])

\* the XOR of the bytes of s at offsets [1, starIndex)
BodyXor(s) == XorAll(SubSeq(s, 2, SuffixStar(s)))

\* C13: for a sentence with a well-formed *HH suffix, the reader constructed
\* on it reports the checksum as valid if and only if the XOR of the bytes
\* at offsets [1, starIndex) equals the value of HH
C13_ValidIffChecksumMatches ==
    (xPhase = "open" /\ HasHexSuffix(mNMEAMessage))
        => (isChecksumValid(mChecksumValidFlag)
                <=> BodyXor(mNMEAMessage) = SuffixValue(mNMEAMessage))

\* C14: a sentence without *HH and a sentence whose *HH does not match never
\* give the same reported checksum status
C14_UnverifiableIsNotMismatch ==
    ( /\ xPhase = "open"
      /\ HasHexSuffix(mNMEAMessage)
      /\ BodyXor(mNMEAMessage) # SuffixValue(mNMEAMessage) )
        => \A s \in ReaderSentences :
              SuffixStar(s) = npos
                  => isChecksumValid(NMEAExtractionStream(s).mChecksumValidFlag)
                         # isChecksumValid(mChecksumValidFlag)


\* the body of the sentence s: the bytes between $ and the checksum
\* delimiter, or the end of the sentence (its terminator trimmed) when it
\* has none
BodyOf(s) ==
    SubSeq(trimTrailing(s), 2,
           IF SuffixStar(s) # npos THEN SuffixStar(s) ELSE Len(trimTrailing(s)))

\* the positions of the separators of body
Separators(body) == { j \in 1..Len(body) : body[j] = ByteComma }

\* the position of the k-th separator of body; 0 for k = 0 and one past the
\* end behind the last
SeparatorAt(body, k) ==
    IF k = 0 THEN 0
    ELSE IF k > Cardinality(Separators(body)) THEN Len(body) + 1
    ELSE CHOOSE j \in Separators(body) :
            Cardinality({ i \in Separators(body) : i < j }) = k - 1

TrimmedBodyOf(s) ==
    LET t == trimTrailing(s)
        star == Find(t, ByteStar, 0)
    IN  trimTrailing(SubSeq(t, 2, IF star # npos THEN star ELSE Len(t)))

DemoSentence ==
    << 36, 71, 80, 71, 71, 65, 44, 52, 50, 44, 49, 50, 51, 46, 52, 53, 54, 44,
       83, 84, 82, 73, 78, 71, 42, 48, 48, 13, 10 >>

\* C16: after construction talker and message are the first 2 and the next 3
\* characters of field 0 when it exists and has at least 5 characters, and
\* the sentinels "XX" and "YYY" otherwise; the demo sentence gives "GP",
\* "GGA" and 4 fields
C16_TalkerAndMessage ==
    xPhase = "open" =>
        /\ IF Len(mFields) >= 1 /\ Len(mFields[1]) >= 5
           THEN /\ xTalker = SubSeq(mFields[1], 1, 2)
                /\ xMessage = SubSeq(mFields[1], 3, 5)
           ELSE /\ xTalker = << 88, 88 >>
                /\ xMessage = << 89, 89, 89 >>
        /\ (mNMEAMessage # << >> /\ mNMEAMessage[1] # ByteDollar)
              => (mFields = << >> /\ xTalker = << 88, 88 >>)
        /\ mNMEAMessage = DemoSentence
              => /\ xTalker = << 71, 80 >>
                 /\ xMessage = << 71, 71, 65 >>
                 /\ numberOfFields(mFields) = 4

\* C16: a reader was constructed on the demo sentence
C16_Witness == xPhase = "open" /\ mNMEAMessage = DemoSentence /\ Len(xTalker) = 2


\* the value an extraction of type t yields when it fails
DefaultOf(t) ==
    IF t = "double" THEN DoubleZero
    ELSE IF t = "text" THEN << >>
    ELSE 0

\* the step is an extraction
IsExtraction == xPhase = "open" /\ Len(outs') = Len(outs) + 1

\* C17: an extraction attempted with the cursor at or beyond the number of
\* fields sets the error flag, yields the default of its type and leaves the
\* cursor unchanged; no extraction indexes the field sequence at a position
\* >= its size
C17_ExhaustedExtraction ==
    [][ IsExtraction =>
          /\ ~oob'
          /\ mFieldIdx >= Len(mFields)
                => /\ mErrorFlag'
                   /\ outs'[Len(outs')].v = DefaultOf(outs'[Len(outs')].t)
                   /\ mFieldIdx' = mFieldIdx ]_vars

\* C17: a register was asked of a reader without fields, after an earlier
\* extraction
C17_Witness ==
    /\ xPhase = "open"
    /\ mFields = << >>
    /\ Len(outs) = 2
    /\ outs[2].t = "register"
    /\ mErrorFlag

\* C18: hasError() is true if and only if an extraction since construction
\* failed to parse its field or was attempted past the last field; once
\* true it stays true under every extraction and under reset()
C18_ErrorFlagIsCumulative ==
    [][ /\ xPhase' = "open" => (mErrorFlag' <=> anyFailed')
        /\ (xPhase = "open" /\ mErrorFlag) => mErrorFlag' ]_vars


\* what an extraction of type t yields on the field f taken alone
ValueOn(t, f) ==
    IF t = "int" THEN ExtractInt(<< f >>, 0, FALSE).value
    ELSE IF t = "double" THEN ExtractDouble(<< f >>, 0, FALSE).value
    ELSE IF t = "register" THEN ExtractRegister(<< f >>, 0, FALSE).value
    ELSE f

\* C19: an extraction with the cursor inside the field sequence consumes the
\* field at the cursor and advances the cursor by exactly one, whether or not
\* the parse succeeds, so that the extractions behind a malformed field
\* yield the values of the fields behind it
C19_OneFieldPerExtraction ==
    [][ (IsExtraction /\ mFieldIdx < Len(mFields))
          => /\ mFieldIdx' = mFieldIdx + 1
             /\ outs'[Len(outs')].v
                    = ValueOn(outs'[Len(outs')].t, mFields[mFieldIdx + 1]) ]_vars

\* C19: of "$GPGGA,4x,0x1A,-7*14\r\n" the malformed "4x" was asked as an int,
\* then the register 0x1A and the int -7 were read
C19_Witness ==
    /\ xPhase = "open"
    /\ mErrorFlag
    /\ Len(outs) = 3
    /\ outs[1] = [ t |-> "int", v |-> 0, pass |-> 0 ]
    /\ outs[2] = [ t |-> "register", v |-> 26, pass |-> 0 ]
    /\ outs[3] = [ t |-> "int", v |-> -7, pass |-> 0 ]

\* the extractions of pass p: pass 0 is before the first reset()
PassOf(p) == SelectSeq(outs, LAMBDA o : o.pass = p)

\* pass p repeats pass 0 up to position k: the same types in the same order
Repeats(p, k) ==
    /\ k <= Len(PassOf(0))
    /\ k <= Len(PassOf(p))
    /\ \A j \in 1..k : PassOf(p)[j].t = PassOf(0)[j].t

\* every pass that repeats the first pass has its values
SameAsFirstPass ==
    \A p \in 1..resets : \A k \in 1..Len(PassOf(p)) :
        Repeats(p, k) => PassOf(p)[k].v = PassOf(0)[k].v

\* C20: reset() sets the cursor to field index 1 from any state, and the
\* same sequence of typed extractions run again after reset() yields the
\* values of the first pass
C20_ResetRepeatsFirstPass ==
    [][ /\ resets' = resets + 1 => mFieldIdx' = 1
        /\ SameAsFirstPass' ]_vars

\* C20: a malformed field and the one behind it were extracted, and again
\* after a reset()
C20_Witness ==
    /\ resets = 1
    /\ mErrorFlag
    /\ Len(PassOf(0)) = 2
    /\ Len(PassOf(1)) = 2
    /\ Repeats(1, 2)
    /\ PassOf(0)[1] = [ t |-> "int", v |-> 0, pass |-> 0 ]
    /\ PassOf(0)[2].t = "register"
    /\ PassOf(0)[2].v = 26


(***************************************************************************)
(* Write, then read: a writer with ample capacity takes integers and text  *)
(* and is finalized; a reader is constructed on the bytes it produced and  *)
(* extracts the same types in the same order.                              *)
(***************************************************************************)
\* "GP" and "G,"
RoundTripTalkers == { << 71, 80 >>, << 71, 44 >> }
RoundTripCapacities == { 32 }
RoundTripInts == { 0, 42, -7 }
\* "", "A", "B,C", "A*", "D "
RoundTripTexts == { << >>, << 65 >>, << 66, 44, 67 >>, << 65, 42 >>, << 68, 32 >> }

InitRoundTrip ==
    NewBuffer(RoundTripCapacities) /\ NoReader /\ NoChecksumCall /\ NoContainers

\* the reader is constructed on the bytes [0, mLen) of the finalized writer
ConstructReader ==
    /\ phase = "open"
    /\ nDone = 1
    /\ mLen <= mCapacity
    /\ ConstructOn(Sentence)

\* the type the next extraction of the round trip has: that of the value written
NextWritten == vals[Len(outs) + 1].t

ReadBackInt ==
    /\ xPhase = "open"
    /\ Len(outs) < Len(vals)
    /\ NextWritten = "int"
    /\ Extracted("int", ExtractInt(mFields, mFieldIdx, mErrorFlag))

ReadBackString ==
    /\ xPhase = "open"
    /\ Len(outs) < Len(vals)
    /\ NextWritten = "text"
    /\ Extracted("text", ExtractString(mFields, mFieldIdx, mErrorFlag))

WriteFirst == xPhase = "none" /\ nFinal = 0

RoundTripConstruct == ConstructFrom(RoundTripTalkers, Messages)

RoundTripInt == WriteFirst /\ AppendIntFrom(RoundTripInts)

RoundTripString == WriteFirst /\ AppendStringFrom(RoundTripTexts)

RoundTripFinalize == WriteFirst /\ Finalize

NextRoundTrip ==
    \/ RoundTripConstruct
    \/ RoundTripInt
    \/ RoundTripString
    \/ RoundTripFinalize
    \/ ConstructReader
    \/ ReadBackInt
    \/ ReadBackString

SpecRoundTrip == InitRoundTrip /\ [][NextRoundTrip]_vars

\* every value written has been read back
ReadBackDone == xPhase = "open" /\ Len(outs) = Len(vals)

\* the values read back are the values written, and no error is flagged
SameValues ==
    /\ \A k \in 1..Len(vals) : outs[k].t = vals[k].t /\ outs[k].v = vals[k].v
    /\ ~mErrorFlag

\* C7 as stated: for every 2-character talker, 3-character message and every
\* sequence of integers and text, writing with ample capacity, finalizing and
\* reading back the same types in the same order yields the original values
\* with hasError() false
C7_RoundTrip ==
    (ReadBackDone /\ Len(mTalker) = 2 /\ Len(mMsg) = 3) => SameValues

\* s holds neither the field separator nor the checksum delimiter
NoDelimiter(s) == \A j \in 1..Len(s) : s[j] # ByteComma /\ s[j] # ByteStar

\* what the framing can carry: no , or * in talker, message or a text, and a
\* text written last does not end in a byte the reader trims
Carriable ==
    /\ NoDelimiter(mTalker)
    /\ NoDelimiter(mMsg)
    /\ \A k \in 1..Len(vals) : vals[k].t = "text" => NoDelimiter(vals[k].v)
    /\ (vals # << >> /\ vals[Len(vals)].t = "text" /\ vals[Len(vals)].v # << >>)
          => vals[Len(vals)].v[Len(vals[Len(vals)].v)] \notin TrimmedBytes

\* C7 amended: the round trip yields the original values with hasError()
\* false when talker, message and texts hold no , and no *, and a text written
\* last does not end in whitespace or NUL
C7_RoundTripCarriable ==
    (ReadBackDone /\ Len(mTalker) = 2 /\ Len(mMsg) = 3 /\ Carriable) => SameValues

\* C7: an integer and a non-empty text went through the round trip
C7_Witness ==
    /\ ReadBackDone
    /\ Carriable
    /\ Len(vals) = 2
    /\ vals[1].t = "int" /\ vals[1].v = -7
    /\ vals[2].t = "text" /\ vals[2].v # << >>

(***************************************************************************)
(* AnyNMEAMessage: the type-erased container.  A payload lives in a heap   *)
(* block owned by one container; the payload types are those of the demo,  *)
(* GGAMessage { i, d, s } and RMCMessage { a, b, c }, each an int, a       *)
(* double and a string.                                                    *)
(***************************************************************************)
PayloadTypes == { "GGAMessage", "RMCMessage" }

\* GGAMessage{} : 42, 123.456, "STRING"
DefaultGGA == [ i |-> 42, d |-> Double(123456, 1000), s |-> << 83, 84, 82, 73, 78, 71 >> ]

\* RMCMessage{} : 7, 3.14, "RMC"
DefaultRMC == [ a |-> 7, b |-> Double(314, 100), c |-> << 82, 77, 67 >> ]

\* GGAMessage{ 1, 43.34, "HELLO" }, the value of the tests
OtherGGA == [ i |-> 1, d |-> Double(4334, 100), s |-> << 72, 69, 76, 76, 79 >> ]

\* RMCMessage{ 105, 456.789, "X" }
OtherRMC == [ a |-> 105, b |-> Double(456789, 1000), c |-> << 88 >> ]

\* T{}
DefaultValue(T) == IF T = "GGAMessage" THEN DefaultGGA ELSE DefaultRMC

\* the value a payload of type T is changed to
OtherValue(T) == IF T = "GGAMessage" THEN OtherGGA ELSE OtherRMC

\* NMEATraits<T>::messageName(): "GGA", "RMC"
NMEATraits(T) == IF T = "GGAMessage" THEN << 71, 71, 65 >> ELSE << 82, 77, 67 >>

\* talkers given to the container: "MW" and the one-character "G"
BoxTalkers == { << 77, 87 >>, << 71 >> }

\* message names given to the container: "RMC" and the four-character "GGAX"
BoxNames == { << 82, 77, 67 >>, << 71, 71, 65, 88 >> }

\* values given to setChecksum and setSize
BoxNumbers == { 93 }

\* ---- the heap ----
\* std::make_unique<Model<T>>(value): the new block is the last one
Allocate(h, T, value) == Append(h, [ live |-> TRUE, type |-> T, value |-> value ])

\* delete of block p (nothing for nullptr)
Delete(h, p) == IF p = 0 THEN h ELSE [ h EXCEPT ![p].live = FALSE ]

\* a clone that hands out the block itself
clone_Shared(h, p) == [ heap |-> h, p |-> p ]

\* Model<T>::clone(): a new block with a copy of value_
clone(h, p) == [ heap |-> Allocate(h, h[p].type, h[p].value), p |-> Len(h) + 1 ]

\* ---- queries ----
\* an empty() that looks at the talker
empty_ByTalker(b) == b.talker_[1] = ByteZero

empty(b) == b.self_ = 0

\* explicit operator bool
bool(b) == ~empty(b)

\* type(): typeid(void) when there is no payload
type(b, h) == IF b.self_ # 0 THEN h[b.self_].type ELSE "void"

\* an isType that accepts any payload
isType_AnyPayload(b, h, T) == b.self_ # 0

isType(b, h, T) == b.self_ # 0 /\ h[b.self_].type = T

\* tryGet<T>(): the block whose value_ the pointer is to, 0 for nullptr
tryGet(b, h, T) == IF isType(b, h, T) THEN b.self_ ELSE 0

\* get<T>(): std::bad_cast when tryGet gives nullptr
get(b, h, T) ==
    LET p == tryGet(b, h, T)
    IN  IF p = 0 THEN [ thrown |-> "bad_cast", p |-> 0 ]
        ELSE [ thrown |-> "none", p |-> p ]

getTalker(b) == SubSeq(b.talker_, 1, 2)

getMessageName(b) == SubSeq(b.messageName_, 1, 3)

getChecksum(b) == b.checksum_

getSize(b) == b.size_

\* ---- modifiers, on a container b: the container afterwards and the exception ----
\* a setTalker that takes a talker of one character too
setTalker_Lenient(b, talker) ==
    IF Len(talker) \notin { 1, 2 } THEN [ b |-> b, thrown |-> "invalid_argument" ]
    ELSE [ b |-> [ b EXCEPT !.talker_ =
                       << talker[1], IF Len(talker) = 2 THEN talker[2] ELSE ByteZero >> ],
           thrown |-> "none" ]

setTalker(b, talker) ==
    IF Len(talker) # 2 THEN [ b |-> b, thrown |-> "invalid_argument" ]
    ELSE [ b |-> [ b EXCEPT !.talker_ = << talker[1], talker[2] >> ], thrown |-> "none" ]

setMessageName(b, messageName) ==
    IF Len(messageName) # 3 THEN [ b |-> b, thrown |-> "invalid_argument" ]
    ELSE [ b |-> [ b EXCEPT !.messageName_ =
                       << messageName[1], messageName[2], messageName[3] >> ],
           thrown |-> "none" ]

setChecksum(b, c) == [ b EXCEPT !.checksum_ = c ]

setSize(b, s) == [ b EXCEPT !.size_ = s ]

\* a reset that keeps the cached checksum and size
reset_KeepsCaches(b, h) ==
    [ b |-> [ b EXCEPT !.self_ = 0,
                       !.talker_ = << ByteZero, ByteZero >>,
                       !.messageName_ = << ByteZero, ByteZero, ByteZero >> ],
      heap |-> Delete(h, b.self_) ]

\* reset(); named resetBox, reset being the reader's
resetBox(b, h) ==
    [ b |-> [ b EXCEPT !.self_ = 0,
                       !.talker_ = << ByteZero, ByteZero >>,
                       !.messageName_ = << ByteZero, ByteZero, ByteZero >>,
                       !.checksum_ = 0,
                       !.size_ = 0 ],
      heap |-> Delete(h, b.self_) ]

\* AnyNMEAMessage() = default
DefaultConstructed == [ Unborn EXCEPT !.born = TRUE ]

\* a deduction that takes the name of GGAMessage for every type
deduceMessageName_AlwaysGGA(T) ==
    [ thrown |-> "none", name |-> NMEATraits("GGAMessage") ]

\* deduceMessageName<T>()
deduceMessageName(T) ==
    LET sv == NMEATraits(T)
    IN  IF Len(sv) # 3 THEN [ thrown |-> "invalid_argument", name |-> << >> ]
        ELSE [ thrown |-> "none", name |-> sv ]

\* AnyNMEAMessage(talker, messageName, value): the block is made first; when a
\* setter throws, the container is not constructed and the block is deleted
AnyNMEAMessage3(h, talker, messageName, T, value) ==
    LET h1 == Allocate(h, T, value)
        b0 == [ DefaultConstructed EXCEPT !.self_ = Len(h1) ]
        r1 == setTalker(b0, talker)
        r2 == setMessageName(r1.b, messageName)
    IN  IF r1.thrown # "none"
        THEN [ b |-> Unborn, heap |-> Delete(h1, Len(h1)), thrown |-> r1.thrown ]
        ELSE IF r2.thrown # "none"
        THEN [ b |-> Unborn, heap |-> Delete(h1, Len(h1)), thrown |-> r2.thrown ]
        ELSE [ b |-> r2.b, heap |-> h1, thrown |-> "none" ]

\* AnyNMEAMessage(talker, value): the name is deduced before anything is made
AnyNMEAMessage2(h, talker, T, value) ==
    LET dn == deduceMessageName(T)
    IN  IF dn.thrown # "none"
        THEN [ b |-> Unborn, heap |-> h, thrown |-> dn.thrown ]
        ELSE AnyNMEAMessage3(h, talker, dn.name, T, value)

\* AnyNMEAMessage(const AnyNMEAMessage& o)
CopyConstructed(o, h) ==
    LET cl == IF o.self_ # 0 THEN clone(h, o.self_) ELSE [ heap |-> h, p |-> 0 ]
    IN  [ b |-> [ born |-> TRUE, self_ |-> cl.p, talker_ |-> o.talker_,
                  messageName_ |-> o.messageName_, checksum_ |-> o.checksum_,
                  size_ |-> o.size_ ],
          heap |-> cl.heap ]

\* operator=(const AnyNMEAMessage& o) of another container: the clone is
\* made, then the old payload is deleted
CopyAssigned(b, o, h) ==
    LET cl == IF o.self_ # 0 THEN clone(h, o.self_) ELSE [ heap |-> h, p |-> 0 ]
    IN  [ b |-> [ born |-> TRUE, self_ |-> cl.p, talker_ |-> o.talker_,
                  messageName_ |-> o.messageName_, checksum_ |-> o.checksum_,
                  size_ |-> o.size_ ],
          heap |-> Delete(cl.heap, b.self_) ]

\* a move that leaves the source its pointer
MoveConstructed_SourceKeepsPayload(o) ==
    [ b |-> [ o EXCEPT !.born = TRUE ], o |-> o ]

\* AnyNMEAMessage(AnyNMEAMessage&&) = default: the pointer moves, the arrays
\* and the numbers are copied
MoveConstructed(o) ==
    [ b |-> [ o EXCEPT !.born = TRUE ], o |-> [ o EXCEPT !.self_ = 0 ] ]

\* operator=(AnyNMEAMessage&&) = default, of another container
MoveAssigned(b, o, h) ==
    [ b |-> o, o |-> [ o EXCEPT !.self_ = 0 ], heap |-> Delete(h, b.self_) ]

\* ---- the payloads' stream operators (payload only, no EndMsg) ----
\* the double d in millionths, as %f prints it (d has at most 6 decimals)
Millionths(d) == d.num * (1000000 \div d.den)

\* an insertion with result w behind insertions that stored up to hi and
\* were short of room or not
After(hi, short, w) == Result(w, Max(hi, w.hi), short \/ w.short)


\* operator<<(NMEAInsertionStream&, const GGAMessage&)
InsertGGA(w, msg) ==
    The(UNION { UNION { { After(w2.hi, w2.short, w3) :
                              w3 \in { InsertString(w2, msg.s) } } :
                        w2 \in { After(w1.hi, w1.short,
                                       InsertDouble(w1, Millionths(msg.d))) } } :
                w1 \in { InsertInt(w, msg.i) } })

\* operator<<(NMEAInsertionStream&, const RMCMessage&)
InsertRMC(w, msg) ==
    The(UNION { UNION { { After(w2.hi, w2.short, w3) :
                              w3 \in { InsertString(w2, msg.c) } } :
                        w2 \in { After(w1.hi, w1.short,
                                       InsertDouble(w1, Millionths(msg.b))) } } :
                w1 \in { InsertInt(w, msg.a) } })

\* the three extractions of a payload's operator>>, in order: their
\* results, each extraction going on from the index and the flag the one
\* before it left
ExtractThree(fields, idx, err) ==
    The(UNION { UNION { { << r1, r2, r3 >> :
                              r3 \in { ExtractString(fields, r2.idx, r2.err) } } :
                        r2 \in { ExtractDouble(fields, r1.idx, r1.err) } } :
                r1 \in { ExtractInt(fields, idx, err) } })

\* operator>>(NMEAExtractionStream&, GGAMessage&)
ExtractGGA(fields, idx, err) ==
    The({ [ value |-> [ i |-> r[1].value, d |-> r[2].value, s |-> r[3].value ],
            idx |-> r[3].idx, err |-> r[3].err ] :
          r \in { ExtractThree(fields, idx, err) } })

\* operator>>(NMEAExtractionStream&, RMCMessage&)
ExtractRMC(fields, idx, err) ==
    The({ [ value |-> [ a |-> r[1].value, b |-> r[2].value, c |-> r[3].value ],
            idx |-> r[3].idx, err |-> r[3].err ] :
          r \in { ExtractThree(fields, idx, err) } })

\* Model<T>::write: ns << value_
ModelWrite(blk, w) ==
    IF blk.type = "GGAMessage" THEN InsertGGA(w, blk.value) ELSE InsertRMC(w, blk.value)

\* Model<T>::read: ex >> value_
ModelRead(blk, fields, idx, err) ==
    IF blk.type = "GGAMessage" THEN ExtractGGA(fields, idx, err)
    ELSE ExtractRMC(fields, idx, err)

\* a serializePayload that writes nothing for an empty container
serializePayload_SilentOnEmpty(b, h, w) ==
    IF b.self_ = 0 THEN [ thrown |-> "none", w |-> Result(w, -1, FALSE) ]
    ELSE [ thrown |-> "none", w |-> ModelWrite(h[b.self_], w) ]

\* serializePayload(ns)
serializePayload(b, h, w) ==
    IF b.self_ = 0 THEN [ thrown |-> "runtime_error", w |-> Result(w, -1, FALSE) ]
    ELSE [ thrown |-> "none", w |-> ModelWrite(h[b.self_], w) ]

\* deserializePayload(ex): the exception, the payload's value and the
\* reader's index and flag afterwards
deserializePayload(b, h, fields, idx, err) ==
    IF b.self_ = 0
    THEN [ thrown |-> "runtime_error", heap |-> h, idx |-> idx, err |-> err ]
    ELSE The({ [ thrown |-> "none", heap |-> [ h EXCEPT ![b.self_].value = r.value ],
                 idx |-> r.idx, err |-> r.err ] :
               r \in { ModelRead(h[b.self_], fields, idx, err) } })

(***************************************************************************)
(* Containers as a state machine: two containers, a writer constructed on  *)
(* "GP", "GGA" and a reader constructed on the demo's sentence, then any   *)
(* operations of the containers.                                           *)
(***************************************************************************)
\* the capacity of the writer the payloads are serialized to
BoxCapacity == 40

InitContainer ==
    /\ LET r == NMEAInsertionStream([ j \in 1..BoxCapacity |-> ByteZero ], BoxCapacity,
                                    << 71, 80 >>, << 71, 71, 65 >>)
       IN  /\ mCapacity = BoxCapacity
           /\ mem = r.mem
           /\ mLen = r.mLen
           /\ mCurrentPtr = r.mCurrentPtr
           /\ mBase = r.mBase
           /\ mFloatFormat = r.mFloatFormat
           /\ hiStore = r.hi
    /\ mTalker = << 71, 80 >>
    /\ mMsg = << 71, 71, 65 >>
    /\ phase = "open"
    /\ vals = << >>
    /\ nFinal = 0
    /\ nDone = 0
    /\ insufficient = FALSE
    /\ LET x == NMEAExtractionStream(DemoSentence)
       IN  /\ mNMEAMessage = DemoSentence
           /\ mFields = x.mFields
           /\ mFieldIdx = x.mFieldIdx
           /\ mErrorFlag = x.mErrorFlag
           /\ mChecksumValidFlag = x.mChecksumValidFlag
           /\ mChecksum = x.mChecksum
           /\ xTalker = x.mTalker
           /\ xMessage = x.mMessage
    /\ xPhase = "open"
    /\ outs = << >>
    /\ resets = 0
    /\ anyFailed = FALSE
    /\ oob = FALSE
    /\ NoChecksumCall
    /\ NoContainers

\* the program runs and the model lets it go on
CanCall == phase = "open" /\ aCalls < MaxCalls

\* the history after operation op of container c, with type argument T (or
\* "void"), given arg, returning ret and throwing thr ("none": returning)
Called(op, c, T, arg, ret, thr) ==
    /\ lastOp' = [ op |-> op, c |-> c, T |-> T, arg |-> arg, ret |-> ret ]
    /\ thrown' = thr
    /\ aCalls' = aCalls + 1

DefaultConstruct(c) ==
    /\ CanCall
    /\ ~boxes[c].born
    /\ boxes' = [ boxes EXCEPT ![c] = DefaultConstructed ]
    /\ Called("AnyNMEAMessage", c, "void", << >>, 0, "none")
    /\ UNCHANGED << heap, wvars, xvars, cvars >>

Construct3(c) ==
    /\ CanCall
    /\ ~boxes[c].born
    /\ \E talker \in BoxTalkers, messageName \in BoxNames, T \in PayloadTypes :
        LET r == AnyNMEAMessage3(heap, talker, messageName, T, DefaultValue(T))
        IN  /\ boxes' = [ boxes EXCEPT ![c] = r.b ]
            /\ heap' = r.heap
            /\ Called("AnyNMEAMessage3", c, T, << talker, messageName >>, 0, r.thrown)
    /\ UNCHANGED << wvars, xvars, cvars >>

Construct2(c) ==
    /\ CanCall
    /\ ~boxes[c].born
    /\ \E talker \in BoxTalkers, T \in PayloadTypes :
        LET r == AnyNMEAMessage2(heap, talker, T, DefaultValue(T))
        IN  /\ boxes' = [ boxes EXCEPT ![c] = r.b ]
            /\ heap' = r.heap
            /\ Called("AnyNMEAMessage2", c, T, << talker >>, 0, r.thrown)
    /\ UNCHANGED << wvars, xvars, cvars >>

CopyConstruct(c, o) ==
    /\ CanCall
    /\ ~boxes[c].born
    /\ boxes[o].born
    /\ LET r == CopyConstructed(boxes[o], heap)
       IN  /\ boxes' = [ boxes EXCEPT ![c] = r.b ]
           /\ heap' = r.heap
    /\ Called("copy", c, "void", o, 0, "none")
    /\ UNCHANGED << wvars, xvars, cvars >>

MoveConstruct(c, o) ==
    /\ CanCall
    /\ ~boxes[c].born
    /\ boxes[o].born
    /\ LET r == MoveConstructed(boxes[o])
       IN  boxes' = [ boxes EXCEPT ![c] = r.b, ![o] = r.o ]
    /\ Called("move", c, "void", o, 0, "none")
    /\ UNCHANGED << heap, wvars, xvars, cvars >>

\* operator=(const AnyNMEAMessage&); nothing happens when this == &o
CopyAssign(c, o) ==
    /\ CanCall
    /\ boxes[c].born
    /\ boxes[o].born
    /\ IF c # o
       THEN LET r == CopyAssigned(boxes[c], boxes[o], heap)
            IN  /\ boxes' = [ boxes EXCEPT ![c] = r.b ]
                /\ heap' = r.heap
       ELSE UNCHANGED << boxes, heap >>
    /\ Called("copy=", c, "void", o, 0, "none")
    /\ UNCHANGED << wvars, xvars, cvars >>

MoveAssign(c, o) ==
    /\ CanCall
    /\ c # o
    /\ boxes[c].born
    /\ boxes[o].born
    /\ LET r == MoveAssigned(boxes[c], boxes[o], heap)
       IN  /\ boxes' = [ boxes EXCEPT ![c] = r.b, ![o] = r.o ]
           /\ heap' = r.heap
    /\ Called("move=", c, "void", o, 0, "none")
    /\ UNCHANGED << wvars, xvars, cvars >>

ResetBox(c) ==
    /\ CanCall
    /\ boxes[c].born
    /\ LET r == resetBox(boxes[c], heap)
       IN  /\ boxes' = [ boxes EXCEPT ![c] = r.b ]
           /\ heap' = r.heap
    /\ Called("reset", c, "void", << >>, 0, "none")
    /\ UNCHANGED << wvars, xvars, cvars >>

SetTalker(c) ==
    /\ CanCall
    /\ boxes[c].born
    /\ \E talker \in BoxTalkers :
        LET r == setTalker(boxes[c], talker)
        IN  /\ boxes' = [ boxes EXCEPT ![c] = r.b ]
            /\ Called("setTalker", c, "void", talker, 0, r.thrown)
    /\ UNCHANGED << heap, wvars, xvars, cvars >>

SetMessageName(c) ==
    /\ CanCall
    /\ boxes[c].born
    /\ \E messageName \in BoxNames :
        LET r == setMessageName(boxes[c], messageName)
        IN  /\ boxes' = [ boxes EXCEPT ![c] = r.b ]
            /\ Called("setMessageName", c, "void", messageName, 0, r.thrown)
    /\ UNCHANGED << heap, wvars, xvars, cvars >>

SetChecksum(c) ==
    /\ CanCall
    /\ boxes[c].born
    /\ \E n \in BoxNumbers :
        /\ boxes' = [ boxes EXCEPT ![c] = setChecksum(boxes[c], n) ]
        /\ Called("setChecksum", c, "void", n, 0, "none")
    /\ UNCHANGED << heap, wvars, xvars, cvars >>

SetSize(c) ==
    /\ CanCall
    /\ boxes[c].born
    /\ \E n \in BoxNumbers :
        /\ boxes' = [ boxes EXCEPT ![c] = setSize(boxes[c], n) ]
        /\ Called("setSize", c, "void", n, 0, "none")
    /\ UNCHANGED << heap, wvars, xvars, cvars >>

TryGet(c) ==
    /\ CanCall
    /\ boxes[c].born
    /\ \E T \in PayloadTypes :
        Called("tryGet", c, T, << >>, tryGet(boxes[c], heap, T), "none")
    /\ UNCHANGED << boxes, heap, wvars, xvars, cvars >>

Get(c) ==
    /\ CanCall
    /\ boxes[c].born
    /\ \E T \in PayloadTypes :
        LET r == get(boxes[c], heap, T)
        IN  Called("get", c, T, << >>, r.p, r.thrown)
    /\ UNCHANGED << boxes, heap, wvars, xvars, cvars >>

\* m.get<T>() = value: the payload is changed through the reference
AssignThroughGet(c) ==
    /\ CanCall
    /\ boxes[c].born
    /\ \E T \in PayloadTypes :
        LET r == get(boxes[c], heap, T)
        IN  /\ heap' = IF r.thrown = "none"
                       THEN [ heap EXCEPT ![r.p].value = OtherValue(T) ]
                       ELSE heap
            /\ Called("get=", c, T, OtherValue(T), r.p, r.thrown)
    /\ UNCHANGED << boxes, wvars, xvars, cvars >>

\* a store outside the buffer is undefined behaviour, as in Commit
SerializePayload(c) ==
    /\ CanCall
    /\ boxes[c].born
    /\ \E r \in { serializePayload(boxes[c], heap, Writer) } :
           /\ mem' = r.w.mem
           /\ mLen' = r.w.mLen
           /\ mCurrentPtr' = r.w.mCurrentPtr
           /\ mBase' = r.w.mBase
           /\ mFloatFormat' = r.w.mFloatFormat
           /\ hiStore' = Max(hiStore, r.w.hi)
           /\ insufficient' = (insufficient \/ r.w.short)
           /\ phase' \in (IF r.w.hi >= mCapacity THEN { "open", "fault" } ELSE { "open" })
           /\ Called("serializePayload", c, "void", << >>, 0, r.thrown)
    /\ UNCHANGED << mCapacity, mTalker, mMsg, vals, nFinal, nDone, boxes, heap,
                    xvars, cvars >>

DeserializePayload(c) ==
    /\ CanCall
    /\ boxes[c].born
    /\ \E r \in { deserializePayload(boxes[c], heap, mFields, mFieldIdx, mErrorFlag) } :
           /\ heap' = r.heap
           /\ mFieldIdx' = r.idx
           /\ mErrorFlag' = r.err
           /\ Called("deserializePayload", c, "void", << >>, 0, r.thrown)
    /\ UNCHANGED << xPhase, mNMEAMessage, mFields, mChecksumValidFlag, mChecksum,
                    xTalker, xMessage, outs, resets, anyFailed, oob, boxes,
                    wvars, cvars >>

NextContainer ==
    \E c \in Boxes :
        \/ DefaultConstruct(c)
        \/ Construct3(c)
        \/ Construct2(c)
        \/ ResetBox(c)
        \/ SetTalker(c)
        \/ SetMessageName(c)
        \/ SetChecksum(c)
        \/ SetSize(c)
        \/ TryGet(c)
        \/ Get(c)
        \/ AssignThroughGet(c)
        \/ SerializePayload(c)
        \/ DeserializePayload(c)
        \/ \E o \in Boxes :
            \/ CopyConstruct(c, o)
            \/ MoveConstruct(c, o)
            \/ CopyAssign(c, o)
            \/ MoveAssign(c, o)

SpecContainer == InitContainer /\ [][NextContainer]_vars

(***************************************************************************)
(* Properties of the container.                                            *)
(***************************************************************************)
\* the step is operation op of some container
Did(op) == aCalls' # aCalls /\ lastOp'.op = op

\* the members of the reader
ReaderMembers ==
    << mNMEAMessage, mFields, mFieldIdx, mErrorFlag, mChecksumValidFlag, mChecksum,
       xTalker, xMessage >>

\* the writer w without the notes on the operation that gave it
Members(w) ==
    [ mCapacity |-> w.mCapacity, mem |-> w.mem, mLen |-> w.mLen,
      mCurrentPtr |-> w.mCurrentPtr, mBase |-> w.mBase,
      mFloatFormat |-> w.mFloatFormat ]

\* C21: serializePayload and deserializePayload of an empty container throw
\* the empty-container error (std::runtime_error) and leave the container,
\* the writer and the reader as they were; of a container with a payload
\* they return after the payload's own write or read operator has run on
\* the stream
C21_EmptyFailsElseDispatches ==
    [][ (Did("serializePayload") \/ Did("deserializePayload")) =>
        LET b == boxes[lastOp'.c]
        IN  IF empty(b)
            THEN /\ thrown' = "runtime_error"
                 /\ boxes' = boxes /\ heap' = heap
                 /\ Writer' = Writer /\ phase' = phase
                 /\ ReaderMembers' = ReaderMembers
            ELSE /\ thrown' = "none"
                 /\ boxes' = boxes
                 /\ Did("serializePayload") =>
                        /\ Writer' = Members(ModelWrite(heap[b.self_], Writer))
                        /\ heap' = heap
                        /\ ReaderMembers' = ReaderMembers
                 /\ Did("deserializePayload") =>
                        LET r == ModelRead(heap[b.self_], mFields, mFieldIdx, mErrorFlag)
                        IN  /\ heap'[b.self_].value = r.value
                            /\ mFieldIdx' = r.idx
                            /\ mErrorFlag' = r.err
                            /\ Writer' = Writer
      ]_vars

\* serializePayload has thrown on a moved-from container whose payload is now
\* the other container's
C21_Witness ==
    /\ lastOp.op = "serializePayload"
    /\ thrown = "runtime_error"
    /\ \E o \in Boxes \ { lastOp.c } :
        /\ empty(boxes[lastOp.c])
        /\ ~empty(boxes[o])
        /\ getTalker(boxes[o]) = getTalker(boxes[lastOp.c])
        /\ getTalker(boxes[o]) # << ByteZero, ByteZero >>

\* C22: isType<T>() is true exactly when the container holds a payload of
\* type T; then get<T>() and tryGet<T>() give the payload; otherwise get<T>()
\* throws the type-mismatch error (std::bad_cast) and tryGet<T>() returns
\* null, and the container is as it was
C22_TypedAccess ==
    [][ /\ \A c \in Boxes, T \in PayloadTypes :
            isType(boxes[c], heap, T) <=> (type(boxes[c], heap) = T)
        /\ (Did("get") \/ Did("tryGet") \/ Did("get=")) =>
            LET b == boxes[lastOp'.c]
                T == lastOp'.T
            IN  IF type(b, heap) = T
                THEN /\ thrown' = "none"
                     /\ lastOp'.ret = b.self_
                     /\ heap[b.self_].live
                ELSE /\ thrown' = (IF Did("tryGet") THEN "none" ELSE "bad_cast")
                     /\ lastOp'.ret = 0
                     /\ boxes' = boxes
                     /\ heap' = heap
      ]_vars

\* get<T>() has thrown on a container that holds a payload of the other type
C22_Witness ==
    /\ lastOp.op = "get"
    /\ thrown = "bad_cast"
    /\ ~empty(boxes[lastOp.c])
    /\ type(boxes[lastOp.c], heap) \in PayloadTypes \ { lastOp.T }

\* everything but the containers
Streams == << wvars, xvars, cvars >>

\* C23: setTalker with a length other than 2 and setMessageName with a length
\* other than 3 throw the invalid-argument error and leave everything as it
\* was; with the exact length they store the characters and nothing else
\* changes; getTalker() always has length 2 and getMessageName() length 3
C23_FixedLengthSetters ==
    [][ /\ \A c \in Boxes :
            Len(getTalker(boxes[c])) = 2 /\ Len(getMessageName(boxes[c])) = 3
        /\ Did("setTalker") =>
            LET c == lastOp'.c
                given == lastOp'.arg
            IN  IF Len(given) # 2
                THEN thrown' = "invalid_argument" /\ boxes' = boxes
                ELSE /\ thrown' = "none"
                     /\ getTalker(boxes'[c]) = given
                     /\ boxes' = [ boxes EXCEPT ![c].talker_ = given ]
        /\ Did("setMessageName") =>
            LET c == lastOp'.c
                given == lastOp'.arg
            IN  IF Len(given) # 3
                THEN thrown' = "invalid_argument" /\ boxes' = boxes
                ELSE /\ thrown' = "none"
                     /\ getMessageName(boxes'[c]) = given
                     /\ boxes' = [ boxes EXCEPT ![c].messageName_ = given ]
        /\ (Did("setTalker") \/ Did("setMessageName")) =>
            heap' = heap /\ Streams' = Streams
      ]_vars

\* setTalker has refused a talker of one character and the container still
\* reports the talker it had
C23_Witness ==
    /\ lastOp.op = "setTalker"
    /\ Len(lastOp.arg) = 1
    /\ thrown = "invalid_argument"
    /\ getTalker(boxes[lastOp.c]) = << 77, 87 >>

\* what a container lets its user see: type(), the payload's value, talker,
\* message name, checksum and size
Observed(b, h) ==
    [ type |-> type(b, h),
      value |-> IF empty(b) THEN << >> ELSE h[b.self_].value,
      talker |-> getTalker(b),
      messageName |-> getMessageName(b),
      checksum |-> getChecksum(b),
      size |-> getSize(b) ]

\* the operations that change the container they are called on
Mutators ==
    { "get=", "setTalker", "setMessageName", "setChecksum", "setSize", "reset",
      "deserializePayload", "copy=" }

\* C24: after copy construction and copy assignment the target shows the
\* type, the value, the talker, the message name, the checksum and the size
\* of the source, the source shows what it showed, and the two payloads are
\* separate objects: an operation that changes one container leaves what the
\* other shows as it was
C24_CopyIsEqualAndIndependent ==
    [][ /\ (Did("copy") \/ Did("copy=")) =>
            LET c == lastOp'.c
                o == lastOp'.arg
            IN  /\ Observed(boxes'[c], heap') = Observed(boxes[o], heap)
                /\ Observed(boxes'[o], heap') = Observed(boxes[o], heap)
                /\ c # o /\ ~empty(boxes[o]) =>
                        /\ boxes'[c].self_ # boxes'[o].self_
                        /\ heap'[boxes'[c].self_].live
        /\ (aCalls' # aCalls /\ lastOp'.op \in Mutators) =>
            \A x \in Boxes \ { lastOp'.c } :
                Observed(boxes'[x], heap') = Observed(boxes[x], heap)
      ]_vars

\* a container whose payload had been changed was copy-assigned to the other
\* one, which now shows the changed value in a payload of its own
C24_Witness ==
    /\ lastOp.op = "copy="
    /\ lastOp.c # lastOp.arg
    /\ ~empty(boxes[lastOp.c])
    /\ boxes[lastOp.c].self_ # boxes[lastOp.arg].self_
    /\ Observed(boxes[lastOp.c], heap).value = OtherValue(type(boxes[lastOp.c], heap))
    /\ Observed(boxes[lastOp.c], heap) = Observed(boxes[lastOp.arg], heap)

\* C25: after reset() the container is not to be told from a
\* default-constructed one: empty() is true, the bool conversion false,
\* type() the type of void, talker and message name all NUL, checksum and
\* size 0; the payload it had is deleted
C25_ResetIsDefault ==
    [][ Did("reset") =>
        LET c == lastOp'.c
            b == boxes'[c]
        IN  /\ Observed(b, heap') = Observed(DefaultConstructed, heap')
            /\ b = DefaultConstructed
            /\ empty(b)
            /\ ~bool(b)
            /\ type(b, heap') = "void"
            /\ getTalker(b) = << ByteZero, ByteZero >>
            /\ getMessageName(b) = << ByteZero, ByteZero, ByteZero >>
            /\ getChecksum(b) = 0
            /\ getSize(b) = 0
            /\ ~empty(boxes[c]) => ~heap'[boxes[c].self_].live
      ]_vars

\* reset() was called on a container that had a payload, the only payload
\* there was
C25_Witness ==
    /\ lastOp.op = "reset"
    /\ boxes[lastOp.c] = DefaultConstructed
    /\ Len(heap) = 1
    /\ ~heap[1].live
    /\ aCalls >= 3

\* C26: a container constructed from a talker and a payload of type T is not
\* empty, converts to true, is of type T and of no other type, reports the
\* talker it was given and the message name registered for T, and holds the
\* value; constructed from a talker, a message name and a payload it reports
\* the name it was given; a default-constructed one is empty and converts to
\* false
C26_Constructors ==
    [][ /\ ((Did("AnyNMEAMessage2") \/ Did("AnyNMEAMessage3")) /\ thrown' = "none") =>
            LET b == boxes'[lastOp'.c]
                T == lastOp'.T
            IN  /\ b.born
                /\ ~empty(b)
                /\ bool(b)
                /\ \A U \in PayloadTypes : isType(b, heap', U) <=> (U = T)
                /\ type(b, heap') = T
                /\ getTalker(b) = lastOp'.arg[1]
                /\ getMessageName(b) =
                       (IF Did("AnyNMEAMessage2") THEN NMEATraits(T) ELSE lastOp'.arg[2])
                /\ heap'[b.self_].live
                /\ heap'[b.self_].value = DefaultValue(T)
        /\ Did("AnyNMEAMessage") =>
            LET b == boxes'[lastOp'.c]
            IN  b.born /\ empty(b) /\ ~bool(b) /\ type(b, heap') = "void"
      ]_vars

\* an RMCMessage was given with the talker "MW" only and the container
\* reports "RMC", while the other container holds a GGAMessage under the
\* name "RMC" it was given
C26_Witness ==
    /\ lastOp.op = "AnyNMEAMessage2"
    /\ lastOp.T = "RMCMessage"
    /\ thrown = "none"
    /\ getTalker(boxes[lastOp.c]) = << 77, 87 >>
    /\ getMessageName(boxes[lastOp.c]) = << 82, 77, 67 >>
    /\ \E o \in Boxes \ { lastOp.c } :
        /\ isType(boxes[o], heap, "GGAMessage")
        /\ getMessageName(boxes[o]) = << 82, 77, 67 >>

(***************************************************************************)
(* A reader on a sentence with one field, read as an int or as a           *)
(* register, again and again past the end.                                 *)
(***************************************************************************)
\* "$GPGGA," and one field: ints at and around INT_MAX and INT_MIN, a sign,
\* a blank or a letter where none may be, leading zeros, an empty field; hex
\* with and without prefix, at and around 32 bits
FieldSentences ==
    {
      \* $GPGGA,2147483647
      << 36, 71, 80, 71, 71, 65, 44, 50, 49, 52, 55, 52, 56, 51, 54, 52, 55 >>,
      \* $GPGGA,2147483648
      << 36, 71, 80, 71, 71, 65, 44, 50, 49, 52, 55, 52, 56, 51, 54, 52, 56 >>,
      \* $GPGGA,-2147483648
      << 36, 71, 80, 71, 71, 65, 44, 45, 50, 49, 52, 55, 52, 56, 51, 54, 52, 56 >>,
      \* $GPGGA,-2147483649
      << 36, 71, 80, 71, 71, 65, 44, 45, 50, 49, 52, 55, 52, 56, 51, 54, 52, 57 >>,
      \* $GPGGA,+5
      << 36, 71, 80, 71, 71, 65, 44, 43, 53 >>,
      \* $GPGGA, 5
      << 36, 71, 80, 71, 71, 65, 44, 32, 53 >>,
      \* $GPGGA,0x10
      << 36, 71, 80, 71, 71, 65, 44, 48, 120, 49, 48 >>,
      \* $GPGGA,12a
      << 36, 71, 80, 71, 71, 65, 44, 49, 50, 97 >>,
      \* $GPGGA,-
      << 36, 71, 80, 71, 71, 65, 44, 45 >>,
      \* $GPGGA,007
      << 36, 71, 80, 71, 71, 65, 44, 48, 48, 55 >>,
      \* $GPGGA,-0
      << 36, 71, 80, 71, 71, 65, 44, 45, 48 >>,
      \* $GPGGA,99999999999
      << 36, 71, 80, 71, 71, 65, 44, 57, 57, 57, 57, 57, 57, 57, 57, 57, 57, 57 >>,
      \* $GPGGA,   (an empty field)
      << 36, 71, 80, 71, 71, 65, 44 >>,
      \* $GPGGA,0x
      << 36, 71, 80, 71, 71, 65, 44, 48, 120 >>,
      \* $GPGGA,0X1f
      << 36, 71, 80, 71, 71, 65, 44, 48, 88, 49, 102 >>,
      \* $GPGGA,FFFFFFFF
      << 36, 71, 80, 71, 71, 65, 44, 70, 70, 70, 70, 70, 70, 70, 70 >>,
      \* $GPGGA,0xffffffff
      << 36, 71, 80, 71, 71, 65, 44, 48, 120, 102, 102, 102, 102, 102, 102, 102, 102 >>,
      \* $GPGGA,100000000
      << 36, 71, 80, 71, 71, 65, 44, 49, 48, 48, 48, 48, 48, 48, 48, 48 >>,
      \* $GPGGA,0x0x1
      << 36, 71, 80, 71, 71, 65, 44, 48, 120, 48, 120, 49 >>,
      \* $GPGGA,0x000000001
      << 36, 71, 80, 71, 71, 65, 44, 48, 120, 48, 48, 48, 48, 48, 48, 48, 48, 49 >>,
      \* $GPGGA,g1
      << 36, 71, 80, 71, 71, 65, 44, 103, 49 >>,
      \* $GPGGA,80000000
      << 36, 71, 80, 71, 71, 65, 44, 56, 48, 48, 48, 48, 48, 48, 48 >>,
      \* $GPGGA,7FFFFFFF
      << 36, 71, 80, 71, 71, 65, 44, 55, 70, 70, 70, 70, 70, 70, 70 >>,
      \* $GPGGA,0x1G
      << 36, 71, 80, 71, 71, 65, 44, 48, 120, 49, 71 >>,
      \* $GPGGA,x10
      << 36, 71, 80, 71, 71, 65, 44, 120, 49, 48 >>,
      \* $GPGGA,-1
      << 36, 71, 80, 71, 71, 65, 44, 45, 49 >> }

InitFields ==
    /\ NoWriter
    /\ NoChecksumCall
    /\ NoContainers
    /\ xPhase = "none"
    /\ mNMEAMessage \in FieldSentences
    /\ mFields = << >>
    /\ mFieldIdx = 1
    /\ mErrorFlag = FALSE
    /\ mChecksumValidFlag = FALSE
    /\ mChecksum = 0
    /\ xTalker = << >>
    /\ xMessage = << >>
    /\ outs = << >>
    /\ resets = 0
    /\ anyFailed = FALSE
    /\ oob = FALSE

NextFields ==
    \/ ReaderConstruct
    \/ ReadInt
    \/ ReadRegister

SpecFields == InitFields /\ [][NextFields]_vars

(***************************************************************************)
(* Properties of the extraction of one field.                              *)
(***************************************************************************)
\* the field an extraction finds at the cursor, none when the cursor is
\* behind the last field
FieldAtCursor == IF mFieldIdx < Len(mFields) THEN mFields[mFieldIdx + 1] ELSE << >>

RECURSIVE DecimalValue(_, _, _)
\* the number the first n digits of the digit string s are, with sign sgn
DecimalValue(s, n, sgn) ==
    IF n = 0 THEN 0 ELSE 10 * DecimalValue(s, n - 1, sgn) + sgn * (s[n] - 48)

\* the number the literal f is
LiteralValue(f) ==
    IF f[1] = ByteMinus
    THEN DecimalValue(SubSeq(f, 2, Len(f)), Len(f) - 1, -1)
    ELSE DecimalValue(f, Len(f), 1)

\* C27: the extraction of an int yields the value and leaves the error flag
\* as it is if and only if the whole field is a base-10 literal of a 32-bit
\* signed int; otherwise (an empty field, characters behind or before the
\* digits, a 0x prefix, a number out of range) it sets the flag and yields 0
C27_IntExtraction ==
    [][ (IsExtraction /\ outs'[Len(outs')].t = "int") =>
        LET f == FieldAtCursor
            v == outs'[Len(outs')].v
        IN  IF IsIntLiteral(f)
            THEN v = LiteralValue(f) /\ mErrorFlag' = mErrorFlag
            ELSE v = 0 /\ mErrorFlag'
      ]_vars

\* of "$GPGGA,-2147483648" the int was read: INT_MIN, and no error
C27_Witness ==
    /\ xPhase = "open"
    /\ Len(outs) = 1
    /\ outs[1] = [ t |-> "int", v |-> IntMin, pass |-> 0 ]
    /\ mFields[2] = << ByteMinus >> \o IntMinDigits
    /\ ~mErrorFlag

RECURSIVE HexValue(_, _)
\* the number the first n hex digits of s are
HexValue(s, n) == IF n = 0 THEN 0 ELSE 16 * HexValue(s, n - 1) + DigitOf(s[n], 16)

\* the 32-bit value the hex literal f is, as the int of the same 32 bits
HexLiteralValue(f) ==
    LET p == IF Len(f) >= 2 /\ f[1] = ByteDigit0 /\ f[2] \in { ByteLowerX, 88 }
             THEN 3 ELSE 1
        sig == SubSeq(f, p + LeadingZeros(f, p), Len(f))
    IN  IF Len(sig) = 8 /\ DigitOf(sig[1], 16) >= 8
        THEN (DigitOf(sig[1], 16) - 16) * TopDigit + HexValue(SubSeq(sig, 2, 8), 7)
        ELSE HexValue(sig, Len(sig))

\* C28: the extraction of a register yields the 32-bit value and leaves the
\* error flag as it is if and only if the field, behind one optional 0x or
\* 0X, is a non-empty string of hex digits of a number that fits in 32 bits;
\* otherwise it sets the flag and yields 0
C28_RegisterExtraction ==
    [][ (IsExtraction /\ outs'[Len(outs')].t = "register") =>
        LET f == FieldAtCursor
            v == outs'[Len(outs')].v
        IN  IF IsHexLiteral(f)
            THEN v = HexLiteralValue(f) /\ mErrorFlag' = mErrorFlag
            ELSE v = 0 /\ mErrorFlag'
      ]_vars

\* of "$GPGGA,0xffffffff" the register was read: 0xFFFFFFFF, and no error
C28_Witness ==
    /\ xPhase = "open"
    /\ Len(outs) = 1
    /\ outs[1] = [ t |-> "register", v |-> -1, pass |-> 0 ]
    /\ Len(mFields[2]) = 10
    /\ ~mErrorFlag

(***************************************************************************)
(* Numbers written, then read: a writer takes ints and registers in        *)
(* either base and is finalized; a reader is constructed on the bytes it   *)
(* produced and extracts the same types in the same order.                 *)
(***************************************************************************)
\* a buffer with room for the preamble and two more bytes, and an ample one
NumberCapacities == { 9, 32 }
\* ints: 42, 0xFFFF, 0x10000, -1, INT_MIN
NumberInts == { 42, 65535, 65536, -1, IntMin }
\* registers, as the int reg.toUInt() converts to: 0x1A, 0x42, 0xFFFFFFFF,
\* 0x80000000
NumberRegisters == { 26, 66, -1, IntMin }

InitNumbers ==
    NewBuffer(NumberCapacities) /\ NoReader /\ NoChecksumCall /\ NoContainers

ReadBackRegister ==
    /\ xPhase = "open"
    /\ Len(outs) < Len(vals)
    /\ NextWritten = "register"
    /\ Extracted("register", ExtractRegister(mFields, mFieldIdx, mErrorFlag))

NumbersConstruct == ConstructFrom({ << 71, 80 >> }, Messages)

NumbersInt == WriteFirst /\ AppendIntFrom(NumberInts)

NumbersRegister == WriteFirst /\ AppendRegisterFrom(NumberRegisters)

NumbersHex == WriteFirst /\ mBase # 16 /\ SetHex

NumbersDec == WriteFirst /\ mBase # 10 /\ SetDec

NumbersFinalize == WriteFirst /\ Finalize

NextNumbers ==
    \/ NumbersConstruct
    \/ NumbersInt
    \/ NumbersRegister
    \/ NumbersHex
    \/ NumbersDec
    \/ NumbersFinalize
    \/ ConstructReader
    \/ ReadBackInt
    \/ ReadBackRegister

SpecNumbers == InitNumbers /\ [][NextNumbers]_vars

(***************************************************************************)
(* Properties of the numbers written.                                      *)
(***************************************************************************)
\* the step is an append of an int
IsIntAppend == Len(vals') = Len(vals) + 1 /\ vals'[Len(vals')].t = "int"

RECURSIVE Width16(_)
\* the number of hex digits of n >= 0
Width16(n) == IF n < 16 THEN 1 ELSE 1 + Width16(n \div 16)

\* the number of hex digits "%04X" prints of the int i: all 8 of a negative
\* one, and never fewer than 4
HexWidth(i) == IF i < 0 THEN 8 ELSE Max(4, Width16(i))

\* the length of the text an int append formats: the number and the separator
FormattedLength(base, i) ==
    IF base = 10 THEN Len(FormatD(i)) + 1 ELSE 2 + HexWidth(i) + 1

\* the bytes of the formatted text that snprintf stores in the room there is
StoredLength(base, i) ==
    LET remaining == SizeSub(mCapacity, mLen)
    IN  IF remaining = 0 THEN 0 ELSE Min(FormattedLength(base, i), remaining - 1)

\* the n bytes at the cursor after the step
WrittenAtCursor(n) == SubSeq(mem', mCurrentPtr + 1, mCurrentPtr + n)

\* s is 0x, uppercase hex digits that are the 32-bit value i, and a separator
IsHexField(s, i) ==
    LET digits == SubSeq(s, 3, Len(s) - 1)
    IN  /\ SubSeq(s, 1, 2) = << ByteDigit0, ByteLowerX >>
        /\ s[Len(s)] = ByteComma
        /\ \A j \in 1..Len(digits) :
               IsDigit(digits[j]) \/ (digits[j] >= ByteUpperA /\ digits[j] <= 70)
        /\ HexLiteralValue(digits) = i

OnlyRegisters == ~insufficient /\ \A k \in 1..Len(vals) : vals[k].t = "register"

\* C30: for every 32-bit register value and either base of the writer,
\* writing the register, finalizing and reading the field back as a register
\* yields the value written, and no error is flagged
C30_RegisterRoundTrip ==
    (ReadBackDone /\ OnlyRegisters /\ vals # << >>) => SameValues

(***************************************************************************)
(* Claims about the writer's toggles, text fields and cursor.              *)
(***************************************************************************)
\* a step of operator<<(Hex), operator<<(Dec) or operator<<(FloatFormat):
\* the writer is constructed, no field is appended and no finalize is called
IsToggle == phase = "open" /\ vals' = vals /\ nFinal' = nFinal

\* a step that appends a field of one of the given kinds
IsAppendOf(kinds) ==
    /\ Len(vals') = Len(vals) + 1
    /\ vals'[Len(vals')].t \in kinds

\* the writer as it is but in the mode of a new writer
InInitialMode ==
    [ Writer EXCEPT !.mBase = InitialBase, !.mFloatFormat = InitialFloatFormat ]

\* C31: the toggles Hex, Dec and FloatFormat store no byte and leave the
\* buffer, the cursor and the length as they were; only they change the base
\* and the float format; what a text or an empty field append stores does not
\* depend on the mode the toggles have set
C31_TogglesWriteNothing ==
    [][ /\ IsToggle =>
            /\ mem' = mem
            /\ mCurrentPtr' = mCurrentPtr
            /\ mLen' = mLen
            /\ hiStore' = hiStore
            /\ mCapacity' = mCapacity
        /\ ~IsToggle => (mBase' = mBase /\ mFloatFormat' = mFloatFormat)
        /\ IsAppendOf({ "text", "empty" }) =>
            LET e == vals'[Len(vals')]
                r == IF e.t = "text" THEN InsertString(InInitialMode, e.v)
                     ELSE InsertEmptyField(InInitialMode)
            IN  /\ mem' = r.mem
                /\ mLen' = r.mLen
                /\ mCurrentPtr' = r.mCurrentPtr
      ]_vars

\* C31: both toggles have acted, an integer was appended in base 16 and a
\* text field after it
C31_Witness ==
    /\ phase = "open"
    /\ mBase = 16
    /\ mFloatFormat = "scientific"
    /\ Len(vals) >= 2
    /\ vals[1].t = "int"
    /\ vals[1].base = 16
    /\ vals[2].t = "text"
    /\ mLen = 1 + Len(mTalker) + Len(mMsg) + 1 + Len(IntText(16, vals[1].v)) + Len(vals[2].v) + 1

\* C32: a text append of s with capacity - length >= |s| + 1 stores the
\* bytes of s and one separator at the cursor, nothing else, and the length
\* and the cursor grow by |s| + 1; with capacity - length < |s| + 1 it stores
\* no byte and leaves the cursor and the length as they were
C32_TextAppend ==
    [][ IsAppendOf({ "text" }) =>
            LET s == vals'[Len(vals')].v
            IN  IF mCapacity - mLen >= Len(s) + 1
                THEN /\ mem' = Store(mem, mCurrentPtr, s \o << ByteComma >>)
                     /\ mLen' = mLen + Len(s) + 1
                     /\ mCurrentPtr' = mCurrentPtr + Len(s) + 1
                ELSE /\ mem' = mem
                     /\ hiStore' = hiStore
                     /\ mLen' = mLen
                     /\ mCurrentPtr' = mCurrentPtr
      ]_vars

(***************************************************************************)
(* Claims about moving a container.                                        *)
(***************************************************************************)
\* C33: after move construction and move assignment from a container with a
\* payload, the destination owns the very block the source owned, with the
\* type and the value it had, no block having been allocated, and shows the
\* talker, the message name, the checksum and the size of the source; the
\* source is empty: serializePayload and deserializePayload on it throw and
\* get<T>() finds no payload
C33_MoveTransfersPayload ==
    [][ ((Did("move") \/ Did("move=")) /\ ~empty(boxes[lastOp'.arg])) =>
            LET c == lastOp'.c
                o == lastOp'.arg
                p == boxes[o].self_
            IN  /\ boxes'[c].self_ = p
                /\ Len(heap') = Len(heap)
                /\ heap'[p] = heap[p]
                /\ heap'[p].live
                /\ Observed(boxes'[c], heap') = Observed(boxes[o], heap)
                /\ empty(boxes'[o])
                /\ ~bool(boxes'[o])
                /\ serializePayload(boxes'[o], heap', Writer).thrown = "runtime_error"
                /\ deserializePayload(boxes'[o], heap', mFields, mFieldIdx, mErrorFlag).thrown
                        = "runtime_error"
                /\ \A T \in PayloadTypes :
                        /\ tryGet(boxes'[o], heap', T) = 0
                        /\ get(boxes'[o], heap', T).thrown = "bad_cast"
      ]_vars

\* a container with a changed payload, checksum and size was move-assigned to
\* a container that had a payload of its own
C33_Witness ==
    /\ lastOp.op = "move="
    /\ empty(boxes[lastOp.arg])
    /\ ~empty(boxes[lastOp.c])
    /\ Len(heap) = 2
    /\ ~heap[3 - boxes[lastOp.c].self_].live
    /\ getTalker(boxes[lastOp.c]) # << ByteZero, ByteZero >>

\* a container with a payload was moved into a new container
C33_WitnessConstruction ==
    /\ lastOp.op = "move"
    /\ empty(boxes[lastOp.arg])
    /\ ~empty(boxes[lastOp.c])
    /\ heap[boxes[lastOp.c].self_].live

(***************************************************************************)
(* The writer with resetBuffer(): construction, appends, resetBuffer() and *)
(* finalize in any order.                                                  *)
(***************************************************************************)
NextReset ==
    \/ Construct
    \/ AppendInt
    \/ AppendString
    \/ AppendEmptyField
    \/ ResetBuffer
    \/ Finalize

SpecReset == Init /\ [][NextReset]_vars

\* C34: in every state of the writer the recorded length is the distance of
\* the cursor from the start of the buffer
C34_LengthIsCursorOffset == mLen = mCurrentPtr

(***************************************************************************)
(* Claims about a finalize that finds no room, and about the preamble.     *)
(***************************************************************************)
\* the byte before the cursor is in the buffer and is a separator
TrailingSeparator ==
    /\ mCurrentPtr >= 1
    /\ mCurrentPtr <= mCapacity
    /\ mem[mCurrentPtr] = ByteComma

\* "*HH\r\n" and the NUL do not fit behind the fields, the trailing separator
\* not counted
CannotFitEnd ==
    /\ mLen > 0
    /\ mCapacity - (IF TrailingSeparator THEN mLen - 1 ELSE mLen) < Required

\* C35: a finalize that cannot fit "*HH\r\n" and the NUL leaves the buffer,
\* the cursor and the length exactly as they were, the trailing separator
\* still counted in the length
C35_FailedFinalizeIsNoOp ==
    [][ (nFinal' = nFinal + 1 /\ CannotFitEnd) =>
            /\ mem' = mem
            /\ hiStore' = hiStore
            /\ mCurrentPtr' = mCurrentPtr
            /\ mLen' = mLen
      ]_vars

\* C36: whenever the length of a constructed writer is greater than zero the
\* buffer starts with $ + talker + message (and the separator, unless a
\* finalize has removed it); a writer whose preamble did not fit at
\* construction stores no byte afterwards and its length stays 0
C36_PreambleFirst ==
    phase # "new" =>
        LET pre == Preamble(mTalker, mMsg)
            required == Len(pre)
        IN  /\ mLen > 0 =>
                /\ mLen >= required - 1
                /\ mCapacity >= required
                /\ \A j \in 1..(required - 1) : mem[j] = pre[j]
            /\ mCapacity < required => (mLen = 0 /\ hiStore = -1)

(***************************************************************************)
(* Claims about the reader's checksum delimiter and its enumerations.      *)
(***************************************************************************)
\* the offsets of the * of t
StarsOf(t) == { o \in 0..(Len(t) - 1) : t[o + 1] = ByteStar }

\* the fields of a body: the bytes between its separators
FieldsOfBody(body) ==
    [ k \in 1..(Cardinality(Separators(body)) + 1) |->
        SubSeq(body, SeparatorAt(body, k - 1) + 1, SeparatorAt(body, k) - 1) ]

\* the reader is what the * at offset p alone makes it: HH are the two
\* characters behind p, the checksum compared with HH is the XOR of the bytes
\* at offsets [1, p), and the fields are those of the bytes at offsets [1, p)
\* (without the white space they end in)
ReaderUsesStar(p) ==
    LET t == trimTrailing(mNMEAMessage)
        hex == IF p + 3 <= Len(t) THEN parseHex2(Substr(t, p + 1, 2))
               ELSE [ ok |-> FALSE, out |-> 0 ]
    IN  /\ mChecksum = hex.out
        /\ mChecksumValidFlag = (hex.ok /\ XorAll(SubSeq(t, 2, p)) = hex.out)
        /\ mFields = FieldsOfBody(trimTrailing(SubSeq(t, 2, p)))

\* C37: for every sentence that begins with $ and holds a *, one with several
\* * too, the reader takes HH, the end of the checksummed bytes and the end of
\* the tokenized body from one and the same *
C37_OneStarPosition ==
    ( /\ xPhase = "open"
      /\ mNMEAMessage # << >>
      /\ mNMEAMessage[1] = ByteDollar
      /\ StarsOf(trimTrailing(mNMEAMessage)) # { } )
        => \E p \in StarsOf(trimTrailing(mNMEAMessage)) : ReaderUsesStar(p)

(***************************************************************************)
(* A reader whose fields are extracted as messageResult_t and as           *)
(* memoryClass_t, the target holding any enumerator before the call.       *)
(***************************************************************************)
\* the enumerators of messageResult_t and of memoryClass_t
MessageResults == { "NACK", "ACK" }
MemoryClasses == { "VOLATILE", "NONVOLATILE" }

EnumSentences ==
    {
      \* $GPGGA,1,x,2,,0,3
      << 36, 71, 80, 71, 71, 65, 44, 49, 44, 120, 44, 50, 44, 44, 48, 44, 51 >>,
      \* $GPGGA,x
      << 36, 71, 80, 71, 71, 65, 44, 120 >>,
      \* $GPGGA,2,0
      << 36, 71, 80, 71, 71, 65, 44, 50, 44, 48 >> }

InitEnums ==
    /\ NoWriter
    /\ NoChecksumCall
    /\ NoContainers
    /\ xPhase = "none"
    /\ mNMEAMessage \in EnumSentences
    /\ mFields = << >>
    /\ mFieldIdx = 1
    /\ mErrorFlag = FALSE
    /\ mChecksumValidFlag = FALSE
    /\ mChecksum = 0
    /\ xTalker = << >>
    /\ xMessage = << >>
    /\ outs = << >>
    /\ resets = 0
    /\ anyFailed = FALSE
    /\ oob = FALSE

\* the members and the history after an extraction of the enumeration t with
\* result r into a target that held prev
ExtractedEnum(t, prev, r) ==
    /\ mFieldIdx' = r.idx
    /\ mErrorFlag' = r.err
    /\ outs' = Append(outs, [ t |-> t, v |-> r.value, pass |-> resets, prev |-> prev ])
    /\ anyFailed' = (anyFailed \/ FailsAt("int", mFields, mFieldIdx))
    /\ oob' = (oob \/ (r.at # npos /\ r.at >= Len(mFields)))
    /\ UNCHANGED << xPhase, mNMEAMessage, mFields, mChecksumValidFlag, mChecksum,
                    xTalker, xMessage, resets, wvars, cvars, avars >>

ReadMessageResult ==
    /\ CanRead
    /\ \E v \in MessageResults :
        ExtractedEnum("messageResult_t", v,
                      ExtractMessageResult(mFields, mFieldIdx, mErrorFlag, v))

ReadMemoryClass ==
    /\ CanRead
    /\ \E v \in MemoryClasses :
        ExtractedEnum("memoryClass_t", v,
                      ExtractMemoryClass(mFields, mFieldIdx, mErrorFlag, v))

NextEnums ==
    \/ ReaderConstruct
    \/ ReadMessageResult
    \/ ReadMemoryClass

SpecEnums == InitEnums /\ [][NextEnums]_vars

\* the enumerator of the enumeration t that the integer n names, "none" when
\* it names none
EnumeratorOf(t, n) ==
    IF t = "messageResult_t"
    THEN (IF n = 0 THEN "NACK" ELSE IF n = 1 THEN "ACK" ELSE "none")
    ELSE (IF n = 1 THEN "VOLATILE" ELSE IF n = 2 THEN "NONVOLATILE" ELSE "none")

\* C38: the extraction of a messageResult_t or of a memoryClass_t assigns the
\* target only when the field at the cursor is an integer that names an
\* enumerator (0, 1 and 1, 2); for a malformed field, a missing field and any
\* other integer the target keeps the value it had, and the error flag is set
\* in the malformed and in the missing case
C38_EnumExtraction ==
    [][ (IsExtraction /\ outs'[Len(outs')].t \in { "messageResult_t", "memoryClass_t" }) =>
        LET e == outs'[Len(outs')]
            missing == mFieldIdx >= Len(mFields)
            f == FieldAtCursor
        IN  IF ~missing /\ IsIntLiteral(f)
            THEN e.v = (IF EnumeratorOf(e.t, LiteralValue(f)) # "none"
                        THEN EnumeratorOf(e.t, LiteralValue(f))
                        ELSE e.prev)
            ELSE /\ mErrorFlag'
                 /\ e.v = e.prev
      ]_vars

====
